---- MODULE Spec2Model ----
(***************************************************************************)
(* A model of ppmac.pp_comm: the line transport (ShellChannel.read_timeout *)
(* and send_line), the pattern wait (_wait_for, ShellChannel.wait_for) and *)
(* the interpreter channel (GpasciiChannel.get_variable, set_variable,     *)
(* kill_motors), together with the byte stream of the remote side.         *)
(*                                                                         *)
(* Text is a sequence of one-character strings, so that splitting,         *)
(* stripping, case folding and number conversion are computed character by *)
(* character, as the Python code computes them.                            *)
(***************************************************************************)
EXTENDS Integers, Sequences, FiniteSets, TLC

VARIABLES
    pending,   \* bytes the remote side has produced, not yet readable
    wire,      \* bytes readable on the paramiko channel (recv_ready() iff non-empty)
    sent,      \* payloads handed to channel.send(), oldest first
    dev,       \* remote interpreter: the value it holds for its variable
    devpos,    \* remote interpreter: number of payloads of sent it has executed
    pc,        \* position of the calling thread: "idle", "reading", "done"
    op,        \* the call in progress and its arguments
    timeout,   \* read_timeout's timeout argument
    elapsed,   \* time.time() - t0, in clock ticks
    buf,       \* read_timeout's accumulation buffer
    yielded,   \* lines read_timeout has yielded to its consumer in this call
    ret,       \* wait_for's list of collected lines
    result,    \* how the call ended: returned value or raised exception
    produced,  \* every line the remote side has produced, oldest first
    lock,      \* the channel's RLock: owning thread (0: none) and hold count
    th,        \* per thread, when several share the channel: its call and position
    csys,      \* remote interpreter: its motor bindings and Sys.MaxCoords
    frame      \* the composed operation in progress above the channel call

vars == <<pending, wire, sent, dev, devpos, pc, op, timeout, elapsed, buf,
          yielded, ret, result, produced, lock, th, csys, frame>>

\* the state of the single caller, left alone when threads are modelled
callVars == <<pc, op, timeout, elapsed, buf, yielded, ret, result>>

\* the state of the threads, left alone when a single caller is modelled
threadVars == <<lock, th>>

\* the state of the composed operations, left alone by the single calls
extVars == <<csys, frame>>

(***************************************************************************)
(* Bounds of the model.                                                    *)
(***************************************************************************)
MaxLines == 2      \* lines the remote side produces unasked in one behaviour
MaxTime == 2       \* clock ticks after which time is no longer counted
NThreads == 2      \* threads sharing one channel
MaxMotor == 11     \* motor ids are 0..MaxMotor
MaxIds == 3        \* length of the id list passed to kill_motors

(***************************************************************************)
(* Program constants.                                                      *)
(***************************************************************************)
RecvSize == 1024   \* channel.recv(1024)
TimeoutNone == -1  \* stands for timeout=None
DefaultTimeout == 1 \* get_variable's timeout=1.0, in clock ticks
SyncTimeout == 1   \* sync's timeout=0.01, in clock ticks

delim == <<"\r", "\n">>
send_delim == <<"\n">>

(***************************************************************************)
(* Python string operations.                                               *)
(***************************************************************************)
Take(s, n) == SubSeq(s, 1, IF n < Len(s) THEN n ELSE Len(s))

Drop(s, n) == SubSeq(s, n + 1, Len(s))

startswith(s, p) == Len(p) <= Len(s) /\ SubSeq(s, 1, Len(p)) = p

endswith(s, p) ==
    Len(p) <= Len(s) /\ SubSeq(s, Len(s) - Len(p) + 1, Len(s)) = p

\* index of the first occurrence of d in s, 0 when there is none (str.find + 1)
find(s, d) ==
    LET hits == {i \in 1..(Len(s) - Len(d) + 1) : SubSeq(s, i, i + Len(d) - 1) = d}
    IN IF hits = {} THEN 0 ELSE CHOOSE i \in hits : \A j \in hits : i <= j

\* d in s
str_in(d, s) == find(s, d) # 0

\* s.split(d): the segments between the non-overlapping occurrences of d,
\* left to right; one more segment than occurrences
RECURSIVE split(_, _)
split(s, d) ==
    LET i == find(s, d)
    IN IF i = 0 THEN <<s>>
       ELSE <<SubSeq(s, 1, i - 1)>> \o split(Drop(s, i + Len(d) - 1), d)

\* s.split(d, 1)
split1(s, d) ==
    LET i == find(s, d)
    IN IF i = 0 THEN <<s>>
       ELSE <<SubSeq(s, 1, i - 1), Drop(s, i + Len(d) - 1)>>

whitespace == {" ", "\t", "\n", "\r", "\f"}

RECURSIVE rstrip(_)
rstrip(s) ==
    IF s # <<>> /\ s[Len(s)] \in whitespace THEN rstrip(SubSeq(s, 1, Len(s) - 1))
    ELSE s

ascii_uppercase ==
    <<"A", "B", "C", "D", "E", "F", "G", "H", "I", "J", "K", "L", "M",
      "N", "O", "P", "Q", "R", "S", "T", "U", "V", "W", "X", "Y", "Z">>

ascii_lowercase ==
    <<"a", "b", "c", "d", "e", "f", "g", "h", "i", "j", "k", "l", "m",
      "n", "o", "p", "q", "r", "s", "t", "u", "v", "w", "x", "y", "z">>

lower(s) ==
    [i \in 1..Len(s) |->
        IF \E k \in 1..26 : ascii_uppercase[k] = s[i]
        THEN ascii_lowercase[CHOOSE k \in 1..26 : ascii_uppercase[k] = s[i]]
        ELSE s[i]]

RECURSIVE join(_, _)
join(parts, sep) ==
    IF parts = <<>> THEN <<>>
    ELSE IF Len(parts) = 1 THEN parts[1]
    ELSE parts[1] \o sep \o join(Tail(parts), sep)

(***************************************************************************)
(* Python values and call outcomes.                                        *)
(***************************************************************************)
PyNone == [type |-> "None", s |-> <<>>, n |-> 0]

PyFalse == [type |-> "bool", s |-> <<>>, n |-> 0]

PyStr(s) == [type |-> "str", s |-> s, n |-> 0]

PyInt(n) == [type |-> "int", s |-> <<>>, n |-> n]

Running == [kind |-> "none", exc |-> "", val |-> PyNone]

Return(v) == [kind |-> "return", exc |-> "", val |-> v]

Raise(e, v) == [kind |-> "raise", exc |-> e, val |-> v]

(***************************************************************************)
(* ShellChannel.read_timeout, one pass of its loop with data ready:        *)
(* buf += channel.recv(1024); the complete lines are yielded, stripped on  *)
(* the right, and the rest is kept in buf.                                 *)
(***************************************************************************)
read_lines(b) ==
    LET lines == split(b, delim)
    IN IF ~endswith(b, delim)
       THEN [buf |-> lines[Len(lines)], lines |-> SubSeq(lines, 1, Len(lines) - 1)]
       ELSE [buf |-> <<>>, lines |-> lines]

read_chunk(b, data) ==
    LET r == read_lines(b \o data)
    IN [buf |-> r.buf, lines |-> [i \in 1..Len(r.lines) |-> rstrip(r.lines[i])]]

\* check_timeout() for a call with timeout t that began e ticks ago
in_time(t, e) == IF t = TimeoutNone THEN TRUE ELSE e <= t

check_timeout == in_time(timeout, elapsed)

(***************************************************************************)
(* Number conversion: int(s), int(s, 16), str(n) and '%d' % n.  A text is  *)
(* a number when it is a non-empty run of digits of the base.              *)
(***************************************************************************)
hexdigits ==
    <<"0", "1", "2", "3", "4", "5", "6", "7", "8", "9", "a", "b", "c", "d", "e", "f">>

digit(c) ==
    IF \E k \in 1..16 : hexdigits[k] = c
    THEN (CHOOSE k \in 1..16 : hexdigits[k] = c) - 1
    ELSE 16

is_number(s, base) == s # <<>> /\ \A i \in 1..Len(s) : digit(lower(s)[i]) < base

RECURSIVE int_of(_, _)
int_of(s, base) ==
    IF s = <<>> THEN 0
    ELSE int_of(SubSeq(s, 1, Len(s) - 1), base) * base + digit(lower(s)[Len(s)])

RECURSIVE str_of(_)
str_of(n) ==
    IF n < 0 THEN <<"-">> \o str_of(0 - n)
    ELSE IF n < 10 THEN <<hexdigits[n + 1]>>
    ELSE str_of(n \div 10) \o <<hexdigits[(n % 10) + 1]>>

\* type_(value) for type_ in str, int and value a text or an integer
convert(type_, v) ==
    IF type_ = "str" THEN
        IF v.type = "int" THEN Return(PyStr(str_of(v.n))) ELSE Return(v)
    ELSE
        IF v.type = "int" THEN Return(v)
        ELSE IF is_number(v.s, 10) THEN Return(PyInt(int_of(v.s, 10)))
        ELSE Raise("ValueError", v)

(***************************************************************************)
(* GpasciiChannel.get_variable, the body of its loop for one line.  var is *)
(* the lower-cased name.  The outcome is Running when the line is skipped. *)
(***************************************************************************)
\* a comparison that accepts any echoed name the requested name begins
name_matches_prefix(var, vname) == startswith(lower(vname), var)

name_matches(var, vname) == var = lower(vname)

\* the echoed value, typecast: a leading '$' marks a hexadecimal number
typecast(type_, value) ==
    IF startswith(value, <<"$">>) THEN
        IF is_number(Tail(value), 16)
        THEN convert(type_, PyInt(int_of(Tail(value), 16)))
        ELSE Raise("ValueError", PyStr(value))
    ELSE convert(type_, PyStr(value))

\* the loop body with the echo looked for before the error check
get_variable_line_echo_first(var, type_, line) ==
    IF str_in(<<"=">>, line) /\ name_matches(var, split1(line, <<"=">>)[1])
    THEN typecast(type_, split1(line, <<"=">>)[2])
    ELSE IF str_in(<<"e", "r", "r", "o", "r">>, line)
    THEN Raise("GPError", PyStr(line))
    ELSE Running

get_variable_line(var, type_, line) ==
    IF str_in(<<"e", "r", "r", "o", "r">>, line) THEN Raise("GPError", PyStr(line))
    ELSE IF str_in(<<"=">>, line) THEN
        LET parts == split1(line, <<"=">>)
            vname == parts[1]
            value == parts[2]
        IN IF name_matches(var, vname) THEN typecast(type_, value) ELSE Running
    ELSE Running

(***************************************************************************)
(* The pattern wait.  A pattern stands for the regular expression          *)
(* '.*' lit (any = TRUE) or lit (any = FALSE), lit being literal text;     *)
(* re.match anchors it at the start of the line only.                      *)
(***************************************************************************)
Pattern(any, lit) ==
    [any |-> any, lit |-> lit, group |-> FALSE, tail |-> FALSE, eol |-> FALSE]

\* the text of the regular expression: '.*' lit, with lit as a group, with a
\* trailing '.*' or with a closing '$' where the pattern has them
pattern_text(p) ==
    (IF p.any THEN <<".", "*">> ELSE <<>>)
    \o (IF p.group THEN <<"(">> \o p.lit \o <<")">> ELSE p.lit)
    \o (IF p.tail THEN <<".", "*">> ELSE <<>>)
    \o (IF p.eol THEN <<"$">> ELSE <<>>)

re_match(p, line) ==
    IF p.any
    THEN IF p.eol THEN endswith(line, p.lit) ELSE str_in(p.lit, line)
    ELSE IF p.eol THEN line = p.lit ELSE startswith(line, p.lit)

\* m.groups()
groups_of(p) == IF p.group THEN <<p.lit>> ELSE <<>>

PPMAC_MESSAGES ==
    <<Pattern(TRUE, <<"/", "/", " ", "*", "*", "*", " ", "e", "x", "i", "t">>),
      Pattern(FALSE, <<"U", "n", "l", "i", "n", "k", "G", "a", "t", "h", "e", "r",
                       "T", "h", "r", "e", "a", "d", ":">>),
      Pattern(FALSE, <<"/", "/", " ", "*", "*", "*", " ", "E", "O", "F">>)>>

NoGroups == [none |-> TRUE, g |-> <<>>]

Groups(g) == [none |-> FALSE, g |-> g]

is_noise(line, remove_matching) ==
    \E i \in 1..Len(remove_matching) : re_match(remove_matching[i], line)

\* the loop body with the noise patterns tried before the target
_wait_for_noise_first(line0, wait_pattern, remove_matching0) ==
    LET line == rstrip(line0)
    IN IF is_noise(line, remove_matching0 \o PPMAC_MESSAGES)
       THEN [yields |-> <<>>, break |-> FALSE]
       ELSE IF line = pattern_text(wait_pattern) \/ re_match(wait_pattern, line)
       THEN [yields |-> <<[line |-> line, groups |-> Groups(<<>>)]>>, break |-> TRUE]
       ELSE [yields |-> <<[line |-> line, groups |-> NoGroups]>>, break |-> FALSE]

\* _wait_for, the body of its loop for one line: what it yields, in order,
\* and whether it leaves the loop (break)
_wait_for(line0, wait_pattern, remove_matching0) ==
    LET remove_matching == remove_matching0 \o PPMAC_MESSAGES
        line == rstrip(line0)
    IN IF line = pattern_text(wait_pattern)
       THEN [yields |-> <<[line |-> line, groups |-> Groups(<<>>)]>>, break |-> TRUE]
       ELSE [yields |->
                (IF re_match(wait_pattern, line)
                 THEN <<[line |-> line, groups |-> Groups(groups_of(wait_pattern))]>>
                 ELSE <<>>)
                \o
                (IF ~is_noise(line, remove_matching)
                 THEN <<[line |-> line, groups |-> NoGroups]>> ELSE <<>>),
             break |-> FALSE]

PyMatch(lines, groups) ==
    [type |-> "tuple", s |-> <<>>, n |-> 0, lines |-> lines, groups |-> groups]

\* the loop with the test for a match made before the line is appended
RECURSIVE wait_for_yields_test_first(_, _)
wait_for_yields_test_first(ys, r) ==
    IF ys = <<>> THEN [ret |-> r, result |-> Running]
    ELSE IF ~ys[1].groups.none
    THEN [ret |-> r, result |-> Return(PyMatch(r, ys[1].groups.g))]
    ELSE wait_for_yields_test_first(Tail(ys), Append(r, ys[1].line))

\* ShellChannel.wait_for, the body of its loop over what _wait_for yields
\* for one line: each yield is appended to ret, a yield with groups returns
RECURSIVE wait_for_yields(_, _)
wait_for_yields(ys, r) ==
    IF ys = <<>> THEN [ret |-> r, result |-> Running]
    ELSE LET r1 == Append(r, ys[1].line)
         IN IF ~ys[1].groups.none
            THEN [ret |-> r1, result |-> Return(PyMatch(r1, ys[1].groups.g))]
            ELSE wait_for_yields(Tail(ys), r1)

\* ShellChannel.sync, the body of its loop for one line
sync_line(line) ==
    IF str_in(<<"e", "r", "r", "o", "r">>, line) THEN Raise("GPError", PyStr(line))
    ELSE Running

(***************************************************************************)
(* GpasciiChannel.get_coord, the body of its loop for one line.  The       *)
(* regular expression '(&(\d+))?#(\d+)->([a-zA-Z0-9]+)' is searched for in  *)
(* the line: the leftmost position where it matches, each repetition       *)
(* taking the longest run it can.                                          *)
(***************************************************************************)
Digits == {"0", "1", "2", "3", "4", "5", "6", "7", "8", "9"}

AlNum ==
    Digits \cup {ascii_lowercase[k] : k \in 1..26} \cup {ascii_uppercase[k] : k \in 1..26}

\* the length of the longest run of characters of the class that begins at i
RECURSIVE span(_, _, _)
span(s, i, class) ==
    IF i <= Len(s) /\ s[i] \in class THEN 1 + span(s, i + 1, class) ELSE 0

char_at(s, i) == IF i >= 1 /\ i <= Len(s) THEN s[i] ELSE ""

NoMatch == [matched |-> FALSE, coord |-> <<>>, mnum |-> <<>>, assigned |-> <<>>]

\* '#(\d+)->([a-zA-Z0-9]+)' matched at position i; coord is group 2 so far
match_binding(s, i, coord) ==
    LET n == span(s, i + 1, Digits)
        m == span(s, i + 3 + n, AlNum)
    IN IF /\ char_at(s, i) = "#"
          /\ n >= 1
          /\ char_at(s, i + 1 + n) = "-"
          /\ char_at(s, i + 2 + n) = ">"
          /\ m >= 1
       THEN [matched |-> TRUE, coord |-> coord, mnum |-> SubSeq(s, i + 1, i + n),
             assigned |-> SubSeq(s, i + 3 + n, i + 2 + n + m)]
       ELSE NoMatch

\* the expression matched at position i: with the optional group, else without
match_at(s, i) ==
    LET k == span(s, i + 1, Digits)
    IN IF char_at(s, i) = "&" /\ k >= 1
       THEN match_binding(s, i + 1 + k, SubSeq(s, i + 1, i + k))
       ELSE match_binding(s, i, <<>>)

re_search(s) ==
    LET hits == {i \in 1..Len(s) : match_at(s, i).matched}
    IN IF hits = {} THEN NoMatch
       ELSE match_at(s, CHOOSE i \in hits : \A j \in hits : i <= j)

\* the pair (coord, assigned) that get_coord returns; assigned is None when
\* bound is FALSE
PyCoord(coord, bound, assigned) ==
    [type |-> "coord", s |-> assigned, n |-> coord, bound |-> bound]

\* the loop body that answers from any binding line, whatever its motor
get_coord_line_any_motor(motor, line) ==
    IF str_in(<<"e", "r", "r", "o", "r">>, line) THEN Raise("GPError", PyStr(line))
    ELSE IF str_in(<<"#">>, line) /\ re_search(line).matched
    THEN LET m == re_search(line)
         IN Return(PyCoord(IF m.coord = <<>> THEN 0 ELSE int_of(m.coord, 10),
                           m.assigned # <<"0">>,
                           IF m.assigned = <<"0">> THEN <<>> ELSE m.assigned))
    ELSE Running

get_coord_line(motor, line) ==
    IF str_in(<<"e", "r", "r", "o", "r">>, line) THEN Raise("GPError", PyStr(line))
    ELSE IF str_in(<<"#">>, line) /\ re_search(line).matched
    THEN LET m == re_search(line)
         IN IF int_of(m.mnum, 10) = motor
            THEN Return(PyCoord(IF m.coord = <<>> THEN 0 ELSE int_of(m.coord, 10),
                                m.assigned # <<"0">>,
                                IF m.assigned = <<"0">> THEN <<>> ELSE m.assigned))
            ELSE Running
    ELSE Running

(***************************************************************************)
(* The consumer of read_timeout: what the caller's loop does with one line *)
(* it is handed, and with the lines of one chunk in turn.  k counts the    *)
(* lines taken from the generator: a return or raise from inside the loop  *)
(* leaves the rest of the chunk unread.                                    *)
(***************************************************************************)
consume_line(o, line, r) ==
    IF o.name = "wait_for"
    THEN wait_for_yields(_wait_for(line, o.pattern, o.remove_matching).yields, r)
    ELSE IF o.name \in {"get_variable", "set_variable"}
    THEN [ret |-> r, result |-> get_variable_line(lower(o.var), o.type_, line)]
    ELSE IF o.name = "send_line"
    THEN [ret |-> r, result |-> sync_line(line)]
    ELSE IF o.name = "get_coord"
    THEN [ret |-> r, result |-> get_coord_line(o.motor, line)]
    ELSE [ret |-> r, result |-> Running]

RECURSIVE consume(_, _, _, _)
consume(o, lines, r, k) ==
    IF k = Len(lines) THEN [k |-> k, ret |-> r, result |-> Running]
    ELSE LET c == consume_line(o, lines[k + 1], r)
         IN IF c.result.kind # "none"
            THEN [k |-> k + 1, ret |-> c.ret, result |-> c.result]
            ELSE consume(o, lines, c.ret, k + 1)

\* what the caller does when read_timeout ends without raising
exhausted(o) ==
    IF o.name = "wait_for" THEN Return(PyFalse)
    ELSE IF o.name = "get_coord" THEN Return(PyCoord(-1, FALSE, <<>>))
    ELSE Return(PyNone)

\* a read_timeout that raises TimeoutError for every timeout but None
timed_out_nonnegative(o, t) ==
    IF t >= 0 /\ o.name # "send_line" THEN Raise("TimeoutError", PyNone)
    ELSE exhausted(o)

\* how the call ends when read_timeout's loop ends: TimeoutError is raised
\* when timeout > 0, and sync (within send_line) catches it
timed_out(o, t) ==
    IF t > 0 /\ o.name # "send_line" THEN Raise("TimeoutError", PyNone)
    ELSE exhausted(o)

(***************************************************************************)
(* The remote side.  Its output is a byte stream: each line it produces is *)
(* followed by the delimiter.  The interpreter holds one variable, DevName *)
(* (names are case-insensitive to it); a write may be accepted, clamped to *)
(* DevLimit or rejected, and a read is answered by the echo name=value; any *)
(* other command is executed silently or answered by an error message.     *)
(***************************************************************************)
RECURSIVE stream(_)
stream(lines) ==
    IF lines = <<>> THEN <<>> ELSE lines[1] \o delim \o stream(Tail(lines))

Scripts(L) == UNION {[1..n -> L] : n \in 0..MaxLines}

DevName == <<"A", "b">>

DevLimit == <<"7">>

ErrorLine == <<"e", "r", "r", "o", "r">>

command(payload) == SubSeq(payload, 1, Len(payload) - Len(send_delim))

DeviceExec ==
    /\ devpos < Len(sent)
    /\ LET cmd == command(sent[devpos + 1])
       IN IF str_in(<<"=">>, cmd)
          THEN /\ \E v \in {split1(cmd, <<"=">>)[2], DevLimit, dev} :
                    dev' = IF lower(split1(cmd, <<"=">>)[1]) = lower(DevName)
                           THEN v ELSE dev
               /\ UNCHANGED <<pending, produced>>
          ELSE IF lower(cmd) = lower(DevName)
          THEN /\ pending' = pending \o stream(<<DevName \o <<"=">> \o dev>>)
               /\ produced' = Append(produced, DevName \o <<"=">> \o dev)
               /\ dev' = dev
          ELSE /\ \E reply \in {<<>>, <<ErrorLine>>} :
                    /\ pending' = pending \o stream(reply)
                    /\ produced' = produced \o reply
               /\ dev' = dev
    /\ devpos' = devpos + 1
    /\ UNCHANGED <<wire, sent, pc, op, timeout, elapsed, buf, yielded, ret, result>>
    /\ UNCHANGED threadVars
    /\ UNCHANGED extVars

\* the transport delivers the next k bytes of the remote side's output
EmitBytes ==
    /\ \E k \in 1..Len(pending) :
          /\ wire' = wire \o Take(pending, k)
          /\ pending' = Drop(pending, k)
    /\ UNCHANGED <<sent, dev, devpos, pc, op, timeout, elapsed, buf, yielded, ret,
                   result, produced>>
    /\ UNCHANGED threadVars
    /\ UNCHANGED extVars

\* the transport delivers the output up to and including the next delimiter
EmitLine ==
    /\ pending # <<>>
    /\ LET k == find(pending, delim) + Len(delim) - 1
       IN /\ wire' = wire \o Take(pending, k)
          /\ pending' = Drop(pending, k)
    /\ UNCHANGED <<sent, dev, devpos, pc, op, timeout, elapsed, buf, yielded, ret,
                   result, produced>>
    /\ UNCHANGED threadVars
    /\ UNCHANGED extVars

(***************************************************************************)
(* The calls.                                                              *)
(***************************************************************************)
NoCall ==
    [name |-> "", var |-> <<>>, type_ |-> "str", value |-> PyNone, check |-> FALSE,
     pattern |-> Pattern(FALSE, <<>>), remove_matching |-> <<>>, motors |-> <<>>,
     motor |-> 0, coord |-> 0]

Timeouts == {TimeoutNone} \cup (0..(MaxTime - 1))

\* channel.send('%s%s' % (line, delim)) of send_line
payload(line) == line \o send_delim

\* '%s' % v
format_s(v) == IF v.type = "int" THEN str_of(v.n) ELSE v.s

\* entering read_timeout: t0 = time.time(), buf = ''
StartReading(t) ==
    /\ timeout' = t
    /\ elapsed' = 0
    /\ buf' = <<>>
    /\ yielded' = <<>>
    /\ ret' = <<>>
    /\ result' = Running
    /\ pc' = "reading"

\* for line in read_timeout(timeout): iterate to the end
CallReadTimeout ==
    /\ pc = "idle"
    /\ \E t \in Timeouts : StartReading(t)
    /\ op' = [NoCall EXCEPT !.name = "read_timeout"]
    /\ UNCHANGED <<pending, wire, sent, dev, devpos, produced>>
    /\ UNCHANGED threadVars
    /\ UNCHANGED extVars

\* a read loop that puts back what follows the line on which the caller
\* returns or raises
Recv_keeps_rest ==
    /\ pc = "reading"
    /\ wire # <<>>
    /\ LET r == read_chunk(buf, Take(wire, RecvSize))
           c == consume(op, r.lines, ret, 0)
       IN /\ yielded' = yielded \o SubSeq(r.lines, 1, c.k)
          /\ ret' = c.ret
          /\ result' = c.result
          /\ IF c.result.kind = "none"
             THEN buf' = r.buf /\ pc' = "reading" /\ wire' = Drop(wire, RecvSize)
             ELSE /\ buf' = <<>> /\ pc' = "done"
                  /\ wire' = stream(SubSeq(r.lines, c.k + 1, Len(r.lines)))
                                \o r.buf \o Drop(wire, RecvSize)
    /\ UNCHANGED <<pending, sent, dev, devpos, op, timeout, elapsed, produced>>
    /\ UNCHANGED threadVars
    /\ UNCHANGED extVars

\* read_timeout's loop, a pass with recv_ready(): the chunk is split into
\* lines and the caller's loop body runs on each line yielded
Recv ==
    /\ pc = "reading"
    /\ wire # <<>>
    /\ LET r == read_chunk(buf, Take(wire, RecvSize))
           c == consume(op, r.lines, ret, 0)
       IN /\ wire' = Drop(wire, RecvSize)
          /\ yielded' = yielded \o SubSeq(r.lines, 1, c.k)
          /\ ret' = c.ret
          /\ result' = c.result
          /\ IF c.result.kind = "none"
             THEN buf' = r.buf /\ pc' = "reading"
             ELSE buf' = <<>> /\ pc' = "done"
    /\ UNCHANGED <<pending, sent, dev, devpos, op, timeout, elapsed, produced>>
    /\ UNCHANGED threadVars
    /\ UNCHANGED extVars

\* time passes (time.sleep(0.01) when nothing is ready)
Tick ==
    /\ pc = "reading"
    /\ elapsed < MaxTime
    /\ elapsed' = elapsed + 1
    /\ UNCHANGED <<pending, wire, sent, dev, devpos, pc, op, timeout, buf, yielded,
                   ret, result, produced>>
    /\ UNCHANGED threadVars
    /\ UNCHANGED extVars

\* read_timeout's loop ends: nothing ready and the time is up; it raises
\* TimeoutError when timeout > 0 and ends the iteration otherwise
Exhaust ==
    /\ pc = "reading"
    /\ wire = <<>>
    /\ ~check_timeout
    /\ result' = timed_out(op, timeout)
    /\ pc' = "done"
    /\ buf' = <<>>
    /\ UNCHANGED <<pending, wire, sent, dev, devpos, op, timeout, elapsed, yielded,
                   ret, produced>>
    /\ UNCHANGED threadVars
    /\ UNCHANGED extVars

(***************************************************************************)
(* The line transport alone: a caller iterates read_timeout to its end     *)
(* while the transport delivers the remote side's lines in arbitrary       *)
(* pieces.                                                                 *)
(***************************************************************************)
InitChannel ==
    /\ wire = <<>>
    /\ sent = <<>>
    /\ dev = <<"0">>
    /\ devpos = 0

InitCall ==
    /\ pc = "idle"
    /\ op = NoCall
    /\ timeout = 0
    /\ elapsed = 0
    /\ buf = <<>>
    /\ yielded = <<>>
    /\ ret = <<>>
    /\ result = Running

\* no coordinate operation: the interpreter has no binding
InitExt ==
    /\ csys = [binds |-> {}, maxcoords |-> 0]
    /\ frame = [fn |-> "", phase |-> ""]

InitIdle ==
    /\ InitChannel
    /\ InitCall
    /\ InitExt
    /\ lock = [owner |-> 0, count |-> 0]
    /\ th = <<>>

ReadLines == {<<>>, <<"a">>, <<"b", " ">>}

InitRead ==
    /\ InitIdle
    /\ produced \in Scripts(ReadLines)
    /\ pending = stream(produced)

NextRead == CallReadTimeout \/ EmitBytes \/ Recv \/ Tick \/ Exhaust

SpecRead == InitRead /\ [][NextRead]_vars

\* C1: once a read has ended with the whole stream delivered, the lines it
\* yielded are the lines the remote side wrote (each stripped of trailing
\* white space), in order, whatever pieces the stream arrived in
C1_ChunkingInvariance ==
    (op.name = "read_timeout" /\ pc = "done" /\ pending = <<>> /\ wire = <<>>)
        => yielded = [i \in 1..Len(produced) |-> rstrip(produced[i])]

(***************************************************************************)
(* The pattern wait over the line transport: one wait_for call while the   *)
(* remote side's lines arrive.                                             *)
(***************************************************************************)
WaitPatterns == {Pattern(FALSE, <<"o", "k">>), Pattern(TRUE, <<"o", "k">>)}

NoiseLists == {<<>>, <<Pattern(TRUE, <<"!">>)>>}

WaitLines ==
    {<<"o", "k">>, <<"o", "k", "!">>, <<"n", "o", "!">>, <<"x">>,
     <<"/", "/", " ", "*", "*", "*", " ", "E", "O", "F">>}

\* wait_for(wait_pattern, timeout, remove_matching=...)
CallWaitFor ==
    /\ pc = "idle"
    /\ \E t \in Timeouts : StartReading(t)
    /\ \E p \in WaitPatterns, rm \in NoiseLists :
          op' = [NoCall EXCEPT !.name = "wait_for", !.pattern = p,
                               !.remove_matching = rm]
    /\ UNCHANGED <<pending, wire, sent, dev, devpos, produced>>
    /\ UNCHANGED threadVars
    /\ UNCHANGED extVars

InitWait ==
    /\ InitIdle
    /\ produced \in Scripts(WaitLines)
    /\ pending = stream(produced)

NextWait == CallWaitFor \/ EmitLine \/ Recv \/ Tick \/ Exhaust

SpecWait == InitWait /\ [][NextWait]_vars

\* the line matches the target of the wait: it is the pattern's text, or the
\* pattern matches at its start
IsTarget(line) == line = pattern_text(op.pattern) \/ re_match(op.pattern, line)

\* the line matches one of the caller's or the built-in noise patterns
IsNoise(line) == is_noise(line, op.remove_matching \o PPMAC_MESSAGES)

Waiting == op.name = "wait_for"

Matched == Waiting /\ pc = "done" /\ result.kind = "return" /\ result.val.type = "tuple"

\* C2: a line that matches the target ends the wait as a match, also when
\* it matches a noise pattern too; a line that matches only a noise pattern
\* is in no list of collected lines
C2_NoisePriority ==
    Waiting =>
        /\ \A i \in 1..Len(yielded) :
              IsTarget(yielded[i]) => (Matched /\ i = Len(yielded))
        /\ \A j \in 1..Len(ret) : ~(IsNoise(ret[j]) /\ ~IsTarget(ret[j]))
        /\ Matched => result.val.lines = ret

C2_Witness ==
    /\ Matched
    /\ IsNoise(yielded[Len(yielded)])
    /\ \E i \in 1..Len(yielded) : IsNoise(yielded[i]) /\ ~IsTarget(yielded[i])

\* the lines of s that match no noise pattern, in order
RECURSIVE NonNoise(_)
NonNoise(s) ==
    IF s = <<>> THEN <<>>
    ELSE (IF IsNoise(s[1]) THEN <<>> ELSE <<s[1]>>) \o NonNoise(Tail(s))

Before(s) == SubSeq(s, 1, Len(s) - 1)

\* C3 as stated: the collected lines of a match are the non-noise lines read
\* before the matching line
C3_CollectedBeforeMatch == Matched => result.val.lines = NonNoise(Before(yielded))

\* C3: the collected lines of a match are the non-noise lines read before
\* the matching line, in arrival order, followed by the matching line
C3_CollectedThroughMatch ==
    Matched =>
        result.val.lines = NonNoise(Before(yielded)) \o <<yielded[Len(yielded)]>>

C3_Witness ==
    /\ Matched
    /\ Len(result.val.lines) >= 2
    /\ Len(yielded) > Len(result.val.lines)

\* C5: a wait that ends with no line having matched the target, by timeout
\* included, returns False
C5_NotFoundIsFalse ==
    (Waiting /\ pc = "done" /\ \A i \in 1..Len(yielded) : ~IsTarget(yielded[i]))
        => result = Return(PyFalse)

(***************************************************************************)
(* The interpreter channel: one get_variable or set_variable call against  *)
(* the remote interpreter, which may also have written lines of its own    *)
(* (echoes of other variables, late echoes, error messages).               *)
(***************************************************************************)
Vars == {<<"A", "B">>}

Types == {"str", "int"}

SetValues == {PyInt(9), PyStr(<<"$", "1", "f">>)}

UnaskedLines ==
    {<<"a", "=", "1">>, <<"a", "b", "c", "=", "2">>, <<"A", "B", "=", "$", "a">>,
     ErrorLine, <<"a", "b", "=">> \o ErrorLine}

\* a get_variable that empties the incoming buffer before it sends
CallGetVariable_after_sync ==
    /\ pc = "idle"
    /\ \E t \in Timeouts : StartReading(t)
    /\ \E var \in Vars, type_ \in Types :
          /\ op' = [NoCall EXCEPT !.name = "get_variable", !.var = var,
                                  !.type_ = type_]
          /\ sent' = Append(sent, payload(lower(var)))
    /\ wire' = <<>>
    /\ UNCHANGED <<pending, dev, devpos, produced>>
    /\ UNCHANGED threadVars
    /\ UNCHANGED extVars

\* get_variable(var, type_, timeout)
CallGetVariable ==
    /\ pc = "idle"
    /\ \E t \in Timeouts : StartReading(t)
    /\ \E var \in Vars, type_ \in Types :
          /\ op' = [NoCall EXCEPT !.name = "get_variable", !.var = var,
                                  !.type_ = type_]
          /\ sent' = Append(sent, payload(lower(var)))
    /\ UNCHANGED <<pending, wire, dev, devpos, produced>>
    /\ UNCHANGED threadVars
    /\ UNCHANGED extVars

\* set_variable returning the value it was given, without the read back
CallSetVariable_no_read_back ==
    /\ pc = "idle"
    /\ \E var \in Vars, value \in SetValues, check \in BOOLEAN :
          /\ op' = [NoCall EXCEPT !.name = "set_variable", !.var = var,
                                  !.value = value, !.check = check]
          /\ sent' = Append(sent, payload(lower(var) \o <<"=">> \o format_s(value)))
          /\ result' = IF check THEN Return(PyStr(format_s(value))) ELSE Return(PyNone)
    /\ pc' = "done"
    /\ UNCHANGED <<pending, wire, dev, devpos, produced, timeout, elapsed, buf,
                   yielded, ret>>
    /\ UNCHANGED threadVars
    /\ UNCHANGED extVars

\* set_variable(var, value, check)
CallSetVariable ==
    /\ pc = "idle"
    /\ \E var \in Vars, value \in SetValues, check \in BOOLEAN :
          LET line == lower(var) \o <<"=">> \o format_s(value)
          IN /\ op' = [NoCall EXCEPT !.name = "set_variable", !.var = var,
                                     !.value = value, !.check = check]
             /\ IF check
                THEN /\ sent' = sent \o <<payload(line), payload(lower(var))>>
                     /\ StartReading(DefaultTimeout)
                ELSE /\ sent' = Append(sent, payload(line))
                     /\ result' = Return(PyNone)
                     /\ pc' = "done"
                     /\ UNCHANGED <<timeout, elapsed, buf, yielded, ret>>
    /\ UNCHANGED <<pending, wire, dev, devpos, produced>>
    /\ UNCHANGED threadVars
    /\ UNCHANGED extVars

Init ==
    /\ InitIdle
    /\ produced \in Scripts(UnaskedLines)
    /\ pending = stream(produced)

Next ==
    \/ CallGetVariable
    \/ CallSetVariable
    \/ DeviceExec
    \/ EmitLine
    \/ Recv
    \/ Tick
    \/ Exhaust

Spec == Init /\ [][Next]_vars

Getting == op.name = "get_variable"

Setting == op.name = "set_variable"

\* the line is an echo name=value of the requested variable
IsEcho(line) ==
    /\ str_in(<<"=">>, line)
    /\ lower(split1(line, <<"=">>)[1]) = lower(op.var)

EchoValue(line) == split1(line, <<"=">>)[2]

HasError(line) == str_in(<<"e", "r", "r", "o", "r">>, line)

\* C4: get_variable ends by returning a value or by raising, and raises
\* TimeoutError when the lines ran out without a matching echo
C4_AnswerOrRaise ==
    (Getting /\ pc = "done") =>
        /\ result.kind = "return" => result.val.type # "None"
        /\ (\A i \in 1..Len(yielded) : ~IsEcho(yielded[i]) /\ ~HasError(yielded[i]))
              => result = Raise("TimeoutError", PyNone)

\* C6: the value get_variable returns is that of the first line read whose
\* name equals the requested name without regard to case; lines for other
\* names before it are passed over
C6_FirstMatchingName ==
    (Getting /\ pc = "done" /\ result.kind = "return" /\ result.val.type # "None") =>
        /\ yielded # <<>>
        /\ IsEcho(yielded[Len(yielded)])
        /\ \A i \in 1..(Len(yielded) - 1) : ~IsEcho(yielded[i])
        /\ result = typecast(op.type_, EchoValue(yielded[Len(yielded)]))

\* a shorter and a longer name were passed over, and the echo accepted
\* differs from the requested name in case
C6_Witness ==
    /\ Getting /\ pc = "done" /\ result.kind = "return"
    /\ \E i, j \in 1..(Len(yielded) - 1) :
          /\ str_in(<<"=">>, yielded[i]) /\ str_in(<<"=">>, yielded[j])
          /\ startswith(lower(op.var) \o <<"=">>, split1(yielded[i], <<"=">>)[1])
          /\ startswith(yielded[j], lower(op.var))
    /\ split1(yielded[Len(yielded)], <<"=">>)[1] \notin {op.var, lower(op.var)}

\* C7: a line containing 'error' that get_variable reads ends the call with
\* GPError carrying that line; no value is returned
C7_ErrorLineRaises ==
    Getting =>
        \A i \in 1..Len(yielded) :
            HasError(yielded[i]) =>
                /\ pc = "done"
                /\ i = Len(yielded)
                /\ result = Raise("GPError", PyStr(yielded[i]))

C7_Witness ==
    /\ Getting /\ pc = "done" /\ result.exc = "GPError"
    /\ IsEcho(yielded[Len(yielded)])
    /\ \E i \in 1..Len(produced) : IsEcho(produced[i]) /\ ~HasError(produced[i])

\* C8: set_variable sends name=value; with check it then sends the read of
\* the name and returns what get_variable reads back from the remote side,
\* without check it sends nothing more, reads nothing and returns None
C8_ReadBack ==
    Setting =>
        /\ sent[1] = lower(op.var) \o <<"=">> \o format_s(op.value) \o send_delim
        /\ op.check =>
              /\ Len(sent) = 2
              /\ sent[2] = lower(op.var) \o send_delim
              /\ (pc = "done" /\ result.kind = "return") =>
                    /\ yielded # <<>>
                    /\ IsEcho(yielded[Len(yielded)])
                    /\ result = typecast("str", EchoValue(yielded[Len(yielded)]))
        /\ ~op.check =>
              /\ Len(sent) = 1
              /\ pc = "done"
              /\ result = Return(PyNone)
              /\ yielded = <<>>

\* the remote side clamped the write and the call returned the clamped value
C8_Witness ==
    /\ Setting /\ op.check /\ pc = "done" /\ result.kind = "return"
    /\ dev = DevLimit
    /\ produced # <<>>
    /\ yielded[Len(yielded)] = produced[Len(produced)]
    /\ result.val = PyStr(DevLimit)
    /\ result.val.s # format_s(op.value)

(***************************************************************************)
(* kill_motors: the id list is de-duplicated, sorted and sent as one       *)
(* command.                                                                *)
(***************************************************************************)
\* motor_list = list(set(motors)); motor_list.sort()
RECURSIVE sorted(_)
sorted(S) ==
    IF S = {} THEN <<>>
    ELSE LET m == CHOOSE x \in S : \A y \in S : x <= y
         IN <<m>> \o sorted(S \ {m})

\* the command built from the list as given, neither de-duplicated nor sorted
kill_motors_line_as_given(motors) ==
    <<"#">> \o join([i \in 1..Len(motors) |-> str_of(motors[i])], <<",">>) \o <<"k">>

kill_motors_line(motors) ==
    LET motor_list == sorted({motors[i] : i \in 1..Len(motors)})
    IN <<"#">> \o join([i \in 1..Len(motor_list) |-> str_of(motor_list[i])], <<",">>)
              \o <<"k">>

MotorLists == UNION {[1..n -> 0..MaxMotor] : n \in 0..MaxIds}

CallKillMotors ==
    /\ pc = "idle"
    /\ \E motors \in MotorLists :
          /\ op' = [NoCall EXCEPT !.name = "kill_motors", !.motors = motors]
          /\ sent' = Append(sent, payload(kill_motors_line(motors)))
    /\ result' = Return(PyNone)
    /\ pc' = "done"
    /\ UNCHANGED <<pending, wire, dev, devpos, produced, timeout, elapsed, buf,
                   yielded, ret>>
    /\ UNCHANGED threadVars
    /\ UNCHANGED extVars

InitKill ==
    /\ InitIdle
    /\ produced = <<>>
    /\ pending = <<>>

NextKill == CallKillMotors

SpecKill == InitKill /\ [][NextKill]_vars

\* the ids a kill command lists: the numbers between '#' and 'k', split at
\* the commas
KillIds(p) ==
    LET body == SubSeq(p, 2, Len(p) - 1 - Len(send_delim))
        parts == IF body = <<>> THEN <<>> ELSE split(body, <<",">>)
    IN [i \in 1..Len(parts) |-> int_of(parts[i], 10)]

KillWellFormed(p) ==
    LET body == SubSeq(p, 2, Len(p) - 1 - Len(send_delim))
    IN /\ startswith(p, <<"#">>)
       /\ endswith(p, <<"k">> \o send_delim)
       /\ body # <<>> => \A i \in 1..Len(split(body, <<",">>)) :
                            is_number(split(body, <<",">>)[i], 10)

\* C9: kill_motors sends one command, which lists the distinct ids of its
\* argument, each once, in strictly increasing order
C9_KillSortedDistinct ==
    (op.name = "kill_motors" /\ pc = "done") =>
        /\ Len(sent) = 1
        /\ KillWellFormed(sent[1])
        /\ LET ids == KillIds(sent[1])
           IN /\ \A i \in 1..(Len(ids) - 1) : ids[i] < ids[i + 1]
              /\ {ids[i] : i \in 1..Len(ids)}
                    = {op.motors[i] : i \in 1..Len(op.motors)}

\* a list out of order, with a repeated id and a two-digit id
C9_Witness ==
    /\ op.name = "kill_motors" /\ pc = "done"
    /\ Len(op.motors) = 3
    /\ op.motors[1] = op.motors[3]
    /\ op.motors[1] >= 10
    /\ op.motors[2] < op.motors[1]
    /\ Len(KillIds(sent[1])) = 2

(***************************************************************************)
(* Threads sharing one channel.  Every use of the channel takes self.lock, *)
(* a re-entrant lock: get_variable holds it from before its send to the    *)
(* end of its read; send_line holds it for the send alone and, with        *)
(* sync=True, calls sync afterwards, which takes it again for the read.    *)
(***************************************************************************)
Threads == 1..NThreads

Free == [owner |-> 0, count |-> 0]

Idle ==
    [pc |-> "idle", op |-> NoCall, buf |-> <<>>, timeout |-> 0, elapsed |-> 0,
     ret |-> <<>>, result |-> Running]

SyncLines == {<<"x">>}

\* get_variable: with self.lock, send_line(var), and the read loop begins
T_GetVariable(t) ==
    /\ th[t].pc = "idle"
    /\ lock.owner = 0
    /\ \E var \in Vars :
          /\ sent' = Append(sent, payload(lower(var)))
          /\ th' = [th EXCEPT ![t] =
                       [Idle EXCEPT !.pc = "reading", !.timeout = DefaultTimeout,
                                    !.op = [NoCall EXCEPT !.name = "get_variable",
                                                          !.var = var]]]
    /\ lock' = [owner |-> t, count |-> 2]
    /\ UNCHANGED <<pending, wire, dev, devpos, produced>>
    /\ UNCHANGED callVars
    /\ UNCHANGED extVars

\* send_line(line, sync=True), its send: the lock is taken and released
T_SendLine(t) ==
    /\ th[t].pc = "idle"
    /\ lock.owner = 0
    /\ \E line \in SyncLines :
          /\ sent' = Append(sent, payload(line))
          /\ th' = [th EXCEPT ![t] =
                       [Idle EXCEPT !.pc = "sent",
                                    !.op = [NoCall EXCEPT !.name = "send_line",
                                                          !.value = PyStr(line)]]]
    /\ UNCHANGED <<pending, wire, dev, devpos, produced, lock>>
    /\ UNCHANGED callVars
    /\ UNCHANGED extVars

\* send_line(line, sync=True), its call of sync: the lock is taken again
T_Sync(t) ==
    /\ th[t].pc = "sent"
    /\ lock.owner = 0
    /\ th' = [th EXCEPT ![t].pc = "syncing", ![t].timeout = SyncTimeout,
                        ![t].elapsed = 0, ![t].buf = <<>>]
    /\ lock' = [owner |-> t, count |-> 2]
    /\ UNCHANGED <<pending, wire, sent, dev, devpos, produced>>
    /\ UNCHANGED callVars
    /\ UNCHANGED extVars

\* a read loop whose abandoned generator keeps its hold of the lock when the
\* caller returns or raises from inside the loop
T_Recv_generator_keeps_lock(t) ==
    /\ th[t].pc \in {"reading", "syncing"}
    /\ wire # <<>>
    /\ LET r == read_chunk(th[t].buf, Take(wire, RecvSize))
           c == consume(th[t].op, r.lines, th[t].ret, 0)
       IN /\ wire' = Drop(wire, RecvSize)
          /\ IF c.result.kind = "none"
             THEN /\ th' = [th EXCEPT ![t].buf = r.buf, ![t].ret = c.ret]
                  /\ lock' = lock
             ELSE /\ th' = [th EXCEPT ![t].buf = <<>>, ![t].pc = "done",
                                      ![t].ret = c.ret, ![t].result = c.result]
                  /\ lock' = [owner |-> t, count |-> 1]
    /\ UNCHANGED <<pending, sent, dev, devpos, produced>>
    /\ UNCHANGED callVars
    /\ UNCHANGED extVars

\* a pass of the read loop with data ready, in the thread holding the lock.
\* When the caller returns or raises from inside its loop, the generator is
\* dropped with the loop and closed: GeneratorExit at its yield leaves its
\* with block, and the caller's with block is left next.
T_Recv(t) ==
    /\ th[t].pc \in {"reading", "syncing"}
    /\ wire # <<>>
    /\ LET r == read_chunk(th[t].buf, Take(wire, RecvSize))
           c == consume(th[t].op, r.lines, th[t].ret, 0)
       IN /\ wire' = Drop(wire, RecvSize)
          /\ IF c.result.kind = "none"
             THEN /\ th' = [th EXCEPT ![t].buf = r.buf, ![t].ret = c.ret]
                  /\ lock' = lock
             ELSE /\ th' = [th EXCEPT ![t].buf = <<>>, ![t].pc = "done",
                                      ![t].ret = c.ret, ![t].result = c.result]
                  /\ lock' = Free
    /\ UNCHANGED <<pending, sent, dev, devpos, produced>>
    /\ UNCHANGED callVars
    /\ UNCHANGED extVars

T_Tick(t) ==
    /\ th[t].pc \in {"reading", "syncing"}
    /\ th[t].elapsed < MaxTime
    /\ th' = [th EXCEPT ![t].elapsed = @ + 1]
    /\ UNCHANGED <<pending, wire, sent, dev, devpos, produced, lock>>
    /\ UNCHANGED callVars
    /\ UNCHANGED extVars

\* the read loop ends; the lock is released as the call ends
T_Exhaust(t) ==
    /\ th[t].pc \in {"reading", "syncing"}
    /\ wire = <<>>
    /\ ~in_time(th[t].timeout, th[t].elapsed)
    /\ th' = [th EXCEPT ![t].pc = "done", ![t].buf = <<>>,
                        ![t].result = timed_out(th[t].op, th[t].timeout)]
    /\ lock' = Free
    /\ UNCHANGED <<pending, wire, sent, dev, devpos, produced>>
    /\ UNCHANGED callVars
    /\ UNCHANGED extVars

InitThreads ==
    /\ InitChannel
    /\ InitCall
    /\ InitExt
    /\ produced = <<>>
    /\ pending = <<>>
    /\ lock = Free
    /\ th = [t \in Threads |-> Idle]

NextThreads ==
    \/ \E t \in Threads : T_GetVariable(t)
    \/ \E t \in Threads : T_SendLine(t)
    \/ \E t \in Threads : T_Sync(t)
    \/ \E t \in Threads : T_Recv(t)
    \/ \E t \in Threads : T_Tick(t)
    \/ \E t \in Threads : T_Exhaust(t)
    \/ DeviceExec
    \/ EmitLine

SpecThreads == InitThreads /\ [][NextThreads]_vars

\* the thread has sent its command and has not finished reading the response
InExchange(t) == th[t].pc \in {"reading", "sent", "syncing"}

\* the step is a send or a read on the channel by thread u
UsesChannel(u) == th'[u] # th[u] /\ (sent' # sent \/ Len(wire') < Len(wire))

\* C10: between a thread's send and the end of its response read no other
\* thread sends or reads on the channel
C10_ExchangeAtomic ==
    [][\A t, u \in Threads : (t # u /\ InExchange(t)) => ~UsesChannel(u)]_vars

(***************************************************************************)
(* Coordinate maps.  The dictionary {coord: {motor: axis}} is a sequence   *)
(* of entries in iteration order, each holding the sequence of its motor   *)
(* entries in iteration order; keys are distinct at both levels.           *)
(***************************************************************************)
Entry(coord, motors) == [coord |-> coord, motors |-> motors]

Axis(motor, axis) == [motor |-> motor, axis |-> axis]

Binding(coord, motor, axis) == [coord |-> coord, motor |-> motor, axis |-> axis]

\* coord in coords
has_coord(coords, coord) == \E i \in 1..Len(coords) : coords[i].coord = coord

\* coords[coord]
motors_of(coords, coord) ==
    coords[CHOOSE i \in 1..Len(coords) : coords[i].coord = coord].motors

\* motors[motor] = assigned
set_item(motors, motor, assigned) ==
    IF \E j \in 1..Len(motors) : motors[j].motor = motor
    THEN [j \in 1..Len(motors) |->
             IF motors[j].motor = motor THEN Axis(motor, assigned) ELSE motors[j]]
    ELSE Append(motors, Axis(motor, assigned))

\* get_coords' loop body: if coord not in coords: coords[coord] = {};
\* coords[coord][motor] = assigned
dict_set(coords, coord, motor, assigned) ==
    IF has_coord(coords, coord)
    THEN [i \in 1..Len(coords) |->
             IF coords[i].coord = coord
             THEN Entry(coord, set_item(coords[i].motors, motor, assigned))
             ELSE coords[i]]
    ELSE Append(coords, Entry(coord, <<Axis(motor, assigned)>>))

\* the bindings of a map in the order of 'for coord, motors in coords.items():
\* for motor, assigned in motors.items()'
RECURSIVE items(_)
items(coords) ==
    IF coords = <<>> THEN <<>>
    ELSE [j \in 1..Len(coords[1].motors) |->
             Binding(coords[1].coord, coords[1].motors[j].motor,
                     coords[1].motors[j].axis)]
         \o items(Tail(coords))

\* get_motor_coords: ret[motor] = coord over the bindings in order, as the
\* set of its (motor, coord) pairs; a later binding of a motor replaces an
\* earlier one
get_motor_coords(coords) ==
    LET its == items(coords)
    IN {<<its[i].motor, its[i].coord>> : i \in
            {i \in 1..Len(its) : \A j \in (i + 1)..Len(its) : its[j].motor # its[i].motor}}

\* max(coords.keys())
max_coord(coords) ==
    CHOOSE c \in {coords[i].coord : i \in 1..Len(coords)} :
        \A i \in 1..Len(coords) : coords[i].coord <= c

(***************************************************************************)
(* The command lines of the coordinate operations.                         *)
(***************************************************************************)
\* '&0#%d->' % motor
query_line(motor) == <<"&", "0", "#">> \o str_of(motor) \o <<"-", ">">>

\* '&%d#%d->0' % (coord, motor)
undef_line(coord, motor) ==
    <<"&">> \o str_of(coord) \o <<"#">> \o str_of(motor) \o <<"-", ">", "0">>

\* '&%d#%d->%s' % (coord, motor, assigned)
assign_line(coord, motor, assigned) ==
    <<"&">> \o str_of(coord) \o <<"#">> \o str_of(motor) \o <<"-", ">">> \o assigned

\* '&%dabort' % coord
abort_line(coord) == <<"&">> \o str_of(coord) \o <<"a", "b", "o", "r", "t">>

\* '&%dundefine' % coord
undefine_line(coord) == <<"&">> \o str_of(coord) \o <<"u", "n", "d", "e", "f", "i", "n", "e">>

undefine_all_line == <<"u", "n", "d", "e", "f", "i", "n", "e", " ", "a", "l", "l">>

maxcoords_var == <<"s", "y", "s", ".", "m", "a", "x", "c", "o", "o", "r", "d", "s">>

maxmotors_var == <<"s", "y", "s", ".", "m", "a", "x", "m", "o", "t", "o", "r", "s">>

(***************************************************************************)
(* The remote interpreter's coordinate systems.  It has NumMotors motors,  *)
(* numbered from 0; a binding ties a motor to an axis of one coordinate    *)
(* system.  It answers the query '&0#m->' with the motor's binding,        *)
(* removes a binding on '&c#m->0' and on the undefine commands, and on a   *)
(* bind command '&c#m->a' refuses, with an error message, to bind a motor  *)
(* that is bound in another coordinate system.  Axis letters are reported  *)
(* in lower case.                                                          *)
(***************************************************************************)
NumMotors == 2

NoCommand == [kind |-> "other", coord |-> 0, motor |-> 0, axis |-> <<>>]

\* the interpreter's reading of a command that addresses a coordinate system
coord_command(cmd) ==
    LET k == span(cmd, 2, Digits)
        rest == Drop(cmd, 1 + k)
        n == span(rest, 2, Digits)
        arg == Drop(rest, 3 + n)
        c == int_of(SubSeq(cmd, 2, 1 + k), 10)
    IN IF char_at(cmd, 1) # "&" \/ k = 0 THEN NoCommand
       ELSE IF rest = <<"a", "b", "o", "r", "t">> THEN [NoCommand EXCEPT !.kind = "abort", !.coord = c]
       ELSE IF rest = <<"u", "n", "d", "e", "f", "i", "n", "e">>
       THEN [NoCommand EXCEPT !.kind = "undefine", !.coord = c]
       ELSE IF /\ char_at(rest, 1) = "#"
               /\ n >= 1
               /\ char_at(rest, 2 + n) = "-"
               /\ char_at(rest, 3 + n) = ">"
       THEN [kind |-> IF arg = <<>> THEN "query"
                      ELSE IF arg = <<"0">> THEN "unbind" ELSE "bind",
             coord |-> c, motor |-> int_of(SubSeq(rest, 2, 1 + n), 10),
             axis |-> lower(arg)]
       ELSE NoCommand

\* the answer to the query for a motor: '&c#m->a', or '#m->0' when unbound
query_reply(binds, motor) ==
    LET mine == {b \in binds : b.motor = motor}
    IN IF mine = {} THEN <<"#">> \o str_of(motor) \o <<"-", ">", "0">>
       ELSE LET b == CHOOSE b \in mine : \A o \in mine : b.coord <= o.coord
            IN assign_line(b.coord, motor, b.axis)

\* an interpreter that binds a motor whatever its other bindings
device_bind_unconditional(binds, coord, motor, axis) ==
    {[binds |-> {b \in binds : ~(b.motor = motor /\ b.coord = coord)}
                   \cup {Binding(coord, motor, axis)},
      reply |-> <<>>]}

\* the outcomes of a bind command: refused for a motor bound in another
\* coordinate system; for a motor number beyond Sys.MaxMotors, refused or
\* carried out; carried out otherwise
device_bind(binds, coord, motor, axis) ==
    LET refused == [binds |-> binds, reply |-> <<ErrorLine>>]
        bound == [binds |-> {b \in binds : ~(b.motor = motor /\ b.coord = coord)}
                               \cup {Binding(coord, motor, axis)},
                  reply |-> <<>>]
    IN IF \E b \in binds : b.motor = motor /\ b.coord # coord THEN {refused}
       ELSE IF motor >= NumMotors THEN {refused, bound}
       ELSE {bound}

Outcome(cs, reply) == [csys |-> cs, reply |-> reply]

\* the outcomes of executing one command: the new state and the lines written
coord_device(cs, cmd) ==
    LET c == coord_command(cmd)
        unbound(b) == ~(b.coord = c.coord /\ b.motor = c.motor)
    IN IF lower(cmd) = maxmotors_var
       THEN {Outcome(cs, <<<<"S", "y", "s", ".", "M", "a", "x", "M", "o", "t", "o", "r", "s", "=">> \o str_of(NumMotors)>>)}
       ELSE IF lower(cmd) = maxcoords_var
       THEN {Outcome(cs, <<<<"S", "y", "s", ".", "M", "a", "x", "C", "o", "o", "r", "d", "s", "=">> \o str_of(cs.maxcoords)>>)}
       ELSE IF /\ startswith(lower(cmd), maxcoords_var \o <<"=">>)
               /\ is_number(split1(cmd, <<"=">>)[2], 10)
       THEN {Outcome([cs EXCEPT !.maxcoords = int_of(split1(cmd, <<"=">>)[2], 10)],
                     <<>>)}
       ELSE IF cmd = undefine_all_line
       THEN {Outcome([cs EXCEPT !.binds = {}], <<>>)}
       ELSE IF c.kind = "abort" THEN {Outcome(cs, <<>>)}
       ELSE IF c.kind = "undefine"
       THEN {Outcome([cs EXCEPT !.binds = {b \in cs.binds : b.coord # c.coord}],
                     <<>>)}
       ELSE IF c.kind = "query"
       THEN {Outcome(cs, <<query_reply(cs.binds, c.motor)>>)}
       ELSE IF c.kind = "unbind"
       THEN {Outcome([cs EXCEPT !.binds = {b \in cs.binds : unbound(b)}], <<>>)}
       ELSE IF c.kind = "bind"
       THEN {Outcome([cs EXCEPT !.binds = r.binds], r.reply) :
                r \in device_bind(cs.binds, c.coord, c.motor, c.axis)}
       ELSE {Outcome(cs, <<>>), Outcome(cs, <<ErrorLine>>)}

CoordDeviceExec ==
    /\ devpos < Len(sent)
    /\ \E r \in coord_device(csys, command(sent[devpos + 1])) :
          /\ csys' = r.csys
          /\ pending' = pending \o stream(r.reply)
          /\ produced' = produced \o r.reply
    /\ devpos' = devpos + 1
    /\ UNCHANGED <<wire, sent, dev, frame>>
    /\ UNCHANGED callVars
    /\ UNCHANGED threadVars

(***************************************************************************)
(* GpasciiChannel.get_coords and set_coords.  Each is a sequence of uses   *)
(* of the channel; the frame holds its local variables, the phase it is in *)
(* and the uses of the channel that remain to be made in that phase.       *)
(***************************************************************************)
ReadTimeout == 1   \* read_timeout's default timeout=5.0, in clock ticks

Main == NThreads + 1   \* the thread that makes the composed call

NoFrame ==
    [fn |-> "", phase |-> "", todo |-> <<>>, coords |-> <<>>, undefine |-> "none",
     check |-> FALSE, current |-> <<>>, motor_to_coord |-> {}, base |-> 0,
     cs |-> "none", saved |-> <<>>, body |-> Running]

\* the uses of the channel: send_line(line), send_line(line, sync=True),
\* get_variable(var, type_=int) and get_coord(motor)
OpSend(line) == [k |-> "send", line |-> line, motor |-> 0, coord |-> 0]

OpSync(line, coord, motor) ==
    [k |-> "send_line", line |-> line, motor |-> motor, coord |-> coord]

OpGetVar(var) == [k |-> "get_variable", line |-> var, motor |-> 0, coord |-> 0]

OpGetCoord(motor) ==
    [k |-> "get_coord", line |-> query_line(motor), motor |-> motor, coord |-> 0]

op_timeout(o) ==
    IF o.k = "send_line" THEN SyncTimeout
    ELSE IF o.k = "get_variable" THEN DefaultTimeout ELSE ReadTimeout

\* a set_coords that aborts the first coordinate system of the map only
abort_ops_first(coords) ==
    [i \in 1..(IF coords = <<>> THEN 0 ELSE 1) |-> OpSend(abort_line(coords[i].coord))]

\* for coord in coords.keys(): send_line('&%dabort' % coord)
abort_ops(coords) == [i \in 1..Len(coords) |-> OpSend(abort_line(coords[i].coord))]

\* 'undefine all', or '&%dundefine' for each coordinate system, or nothing
clear_ops(coords, undefine) ==
    IF undefine = "all" THEN <<OpSend(undefine_all_line)>>
    ELSE IF undefine = "coord"
    THEN [i \in 1..Len(coords) |-> OpSend(undefine_line(coords[i].coord))]
    ELSE <<>>

\* motor_to_coord[motor]
coord_of(motor_to_coord, motor) ==
    (CHOOSE p \in motor_to_coord : p[1] = motor)[2]

\* a set_coords that removes no motor from its coordinate system
unbind_ops_none(coords, motor_to_coord) == <<>>

\* for every binding of coords whose motor is in motor_to_coord:
\* send_line('&%d#%d->0' % (motor_to_coord[motor], motor), sync=True)
unbind_ops(coords, motor_to_coord) ==
    LET bound(it) == \E p \in motor_to_coord : p[1] = it.motor
        its == SelectSeq(items(coords), bound)
    IN [i \in 1..Len(its) |->
           OpSync(undef_line(coord_of(motor_to_coord, its[i].motor), its[i].motor),
                  coord_of(motor_to_coord, its[i].motor), its[i].motor)]

\* for every binding of coords: send_line('&%d#%d->%s' % ..., sync=True)
bind_ops(coords) ==
    LET its == items(coords)
    IN [i \in 1..Len(its) |->
           OpSync(assign_line(its[i].coord, its[i].motor, its[i].axis),
                  its[i].coord, its[i].motor)]

\* [(num, axis.lower()) for num, axis in motors.items()], as a set
pairs(motors) == {<<motors[j].motor, lower(motors[j].axis)>> : j \in 1..Len(motors)}

\* the check of set_coords: current[coord] raises KeyError for a coordinate
\* system that is no key of current
RECURSIVE verify(_, _)
verify(coords, current) ==
    IF coords = <<>> THEN Return(PyNone)
    ELSE IF ~has_coord(current, coords[1].coord)
    THEN Raise("KeyError", PyInt(coords[1].coord))
    ELSE IF pairs(coords[1].motors) # pairs(motors_of(current, coords[1].coord))
    THEN Raise("ValueError", PyInt(coords[1].coord))
    ELSE verify(Tail(coords), current)

PyDict(coords) == [type |-> "dict", s |-> <<>>, n |-> 0, coords |-> coords]

\* the frame after a use of the channel has returned v.  The first read of
\* the call is the capacity check: set_variable('sys.maxcoords', max_coord + 1)
\* follows when set_coords finds the capacity too small, and set_variable
\* reads the variable back
continue_frame(f, o, v) ==
    IF o.name = "get_variable" /\ o.var = maxcoords_var /\ Len(sent) = f.base + 1
    THEN [f EXCEPT !.todo =
             IF max_coord(f.coords) > v.n
             THEN <<OpSend(maxcoords_var \o <<"=">> \o str_of(max_coord(f.coords) + 1)),
                    OpGetVar(maxcoords_var)>>
             ELSE <<>>]
    ELSE IF o.name = "get_variable" /\ o.var = maxmotors_var
    THEN [f EXCEPT !.current = <<>>,
                   !.todo = [m \in 1..v.n |-> OpGetCoord(m - 1)]]
    ELSE IF o.name = "get_coord" /\ v.bound
    THEN [f EXCEPT !.current = dict_set(f.current, v.n, o.motor, v.s)]
    ELSE f

\* the frame when the uses of the channel of its phase have been made: the
\* next phase that has a use to make, or the end
RECURSIVE advance(_)
advance(f) ==
    IF f.todo # <<>> \/ f.phase = "end" THEN f
    ELSE IF f.fn = "get_coords" THEN [f EXCEPT !.phase = "end"]
    ELSE IF f.phase = "capacity"
    THEN advance([f EXCEPT !.phase = "abort", !.todo = abort_ops(f.coords)])
    ELSE IF f.phase = "abort"
    THEN advance([f EXCEPT !.phase = "clear",
                           !.todo = clear_ops(f.coords, f.undefine)])
    ELSE IF f.phase = "clear"
    THEN [f EXCEPT !.phase = "read", !.todo = <<OpGetVar(maxmotors_var)>>]
    ELSE IF f.phase = "read"
    THEN advance([f EXCEPT !.phase = "unbind",
                           !.motor_to_coord = get_motor_coords(f.current),
                           !.todo = unbind_ops(f.coords, get_motor_coords(f.current))])
    ELSE IF f.phase = "unbind"
    THEN advance([f EXCEPT !.phase = "bind", !.todo = bind_ops(f.coords)])
    ELSE IF f.phase = "bind" /\ f.check
    THEN [f EXCEPT !.phase = "check", !.todo = <<OpGetVar(maxmotors_var)>>]
    ELSE [f EXCEPT !.phase = "end"]

\* what the call returns or raises when it reaches its end
final_result(f) ==
    IF f.fn = "get_coords" THEN Return(PyDict(f.current))
    ELSE IF f.check THEN verify(f.coords, f.current)
    ELSE Return(PyNone)

\* with self.lock, entered by thread t; the lock is re-entrant, so that the
\* uses of the channel made inside set_coords find it taken by their own thread
lock_not_taken(l, t) == l

with_lock(l, t) == [owner |-> t, count |-> l.count + 1]

\* the end of the with block
release(l) ==
    IF l.count <= 1 THEN [owner |-> 0, count |-> 0] ELSE [l EXCEPT !.count = @ - 1]

\* the lock when the call in the frame ends
lock_at_end(f, l) == IF f.fn = "set_coords" THEN release(l) ELSE l

\* a 'Failed to set coord' that names no coordinate system and no motor
PyFailed_unnamed(coord, motor, ex) ==
    [type |-> "failed", s |-> ex.s, n |-> 0, motor |-> 0]

\* GPError('Failed to set coord[%d] motor %d: %s' % (coord, motor, ex))
PyFailed(coord, motor, ex) ==
    [type |-> "failed", s |-> ex.s, n |-> coord, motor |-> motor]

\* set_coords(coords, undefine_coord=..., undefine_all=..., check=...) is
\* entered: 'if not coords: return' inside the with block, else the capacity
\* check is the first use of the channel
BeginSetCoords(f, coords, undefine, check) ==
    /\ lock.owner = 0
    /\ op' = NoCall
    /\ UNCHANGED <<timeout, elapsed, buf, yielded, ret>>
    /\ IF coords = <<>>
       THEN /\ frame' = [f EXCEPT !.fn = "set_coords", !.phase = "end",
                                  !.todo = <<>>, !.coords = coords,
                                  !.undefine = undefine, !.check = check,
                                  !.base = Len(sent)]
            /\ pc' = "done"
            /\ result' = Return(PyNone)
            /\ lock' = lock
       ELSE /\ frame' = [f EXCEPT !.fn = "set_coords", !.phase = "capacity",
                                  !.todo = <<OpGetVar(maxcoords_var)>>,
                                  !.coords = coords, !.undefine = undefine,
                                  !.check = check, !.current = <<>>,
                                  !.motor_to_coord = {}, !.base = Len(sent)]
            /\ pc' = "ready"
            /\ result' = Running
            /\ lock' = with_lock(lock, Main)

\* get_coords() is entered: reading sys.maxmotors is its first use of the
\* channel
BeginGetCoords(f) ==
    /\ op' = NoCall
    /\ UNCHANGED <<timeout, elapsed, buf, yielded, ret>>
    /\ frame' = [f EXCEPT !.fn = "get_coords", !.phase = "read",
                          !.todo = <<OpGetVar(maxmotors_var)>>, !.coords = <<>>,
                          !.current = <<>>, !.base = Len(sent)]
    /\ pc' = "ready"
    /\ result' = Running
    /\ lock' = lock

\* the next use of the channel: the line is sent and, unless it is a bare
\* send_line, the read of the response begins
Issue ==
    /\ pc = "ready"
    /\ frame.todo # <<>>
    /\ LET o == Head(frame.todo)
       IN /\ sent' = Append(sent, payload(o.line))
          /\ frame' = [frame EXCEPT !.todo = Tail(@)]
          /\ IF o.k = "send"
             THEN UNCHANGED callVars
             ELSE /\ StartReading(op_timeout(o))
                  /\ op' = [NoCall EXCEPT !.name = o.k, !.var = o.line,
                                          !.type_ = "int", !.motor = o.motor,
                                          !.coord = o.coord]
    /\ UNCHANGED <<pending, wire, dev, devpos, produced, csys>>
    /\ UNCHANGED threadVars

\* a use of the channel has ended: an exception ends the call (a GPError of
\* a bind command is raised again as 'Failed to set coord'), a returned
\* value is taken into the local variables
Continue ==
    /\ pc = "done"
    /\ frame.fn # ""
    /\ frame.phase # "end"
    /\ IF result.kind = "raise"
       THEN /\ frame' = [frame EXCEPT !.phase = "end", !.todo = <<>>]
            /\ result' = IF frame.phase = "bind" /\ result.exc = "GPError"
                         THEN Raise("GPError", PyFailed(op.coord, op.motor, result.val))
                         ELSE result
            /\ pc' = "done"
            /\ lock' = lock_at_end(frame, lock)
       ELSE /\ frame' = continue_frame(frame, op, result.val)
            /\ result' = Running
            /\ pc' = "ready"
            /\ lock' = lock
    /\ UNCHANGED <<pending, wire, sent, dev, devpos, produced, csys, th>>
    /\ UNCHANGED <<op, timeout, elapsed, buf, yielded, ret>>

\* the uses of the channel of the phase have been made: the next phase
\* begins, or the call ends
Advance ==
    /\ pc = "ready"
    /\ frame.todo = <<>>
    /\ frame' = advance(frame)
    /\ IF advance(frame).phase = "end"
       THEN /\ pc' = "done"
            /\ result' = final_result(advance(frame))
            /\ lock' = lock_at_end(frame, lock)
       ELSE UNCHANGED <<pc, result, lock>>
    /\ UNCHANGED <<pending, wire, sent, dev, devpos, produced, csys, th>>
    /\ UNCHANGED <<op, timeout, elapsed, buf, yielded, ret>>

\* KeyboardInterrupt is raised in the calling thread while the call runs
Interrupt ==
    /\ frame.fn # ""
    /\ frame.phase # "end"
    /\ pc \in {"ready", "reading", "done"}
    /\ frame' = [frame EXCEPT !.phase = "end", !.todo = <<>>]
    /\ result' = Raise("KeyboardInterrupt", PyNone)
    /\ pc' = "done"
    /\ buf' = <<>>
    /\ lock' = lock_at_end(frame, lock)
    /\ UNCHANGED <<pending, wire, sent, dev, devpos, produced, csys, th>>
    /\ UNCHANGED <<op, timeout, elapsed, yielded, ret>>

(***************************************************************************)
(* The coordinate operations of one caller against the interpreter:        *)
(* set_coords, and CoordinateSave around a body that calls set_coords as   *)
(* custom_tune does.                                                       *)
(***************************************************************************)
\* desired maps: empty; one binding; an upper-case axis; two coordinate
\* systems; one motor in two coordinate systems; a coordinate system with no
\* motor; a motor number beyond Sys.MaxMotors
CoordMaps ==
    {<<>>,
     <<Entry(1, <<Axis(0, <<"x">>)>>)>>,
     <<Entry(2, <<Axis(0, <<"Y">>)>>)>>,
     <<Entry(1, <<Axis(0, <<"x">>)>>), Entry(2, <<Axis(1, <<"y">>)>>)>>,
     <<Entry(1, <<Axis(0, <<"x">>)>>), Entry(2, <<Axis(0, <<"y">>)>>)>>,
     <<Entry(1, <<>>)>>,
     <<Entry(1, <<Axis(NumMotors, <<"x">>)>>)>>}

Undefines == {"none", "coord", "all"}

\* the bindings of the interpreter before the first call
InitBinds ==
    {{},
     {Binding(1, 0, <<"x">>)},
     {Binding(1, 0, <<"x">>), Binding(1, 1, <<"y">>)}}

InitMaxCoords == {1, 2}

CallSetCoords ==
    /\ pc = "idle"
    /\ \E coords \in CoordMaps, undefine \in Undefines, check \in BOOLEAN :
          BeginSetCoords(NoFrame, coords, undefine, check)
    /\ UNCHANGED <<pending, wire, sent, dev, devpos, produced, csys, th>>

\* CoordinateSave.__enter__: self.coords = self.channel.get_coords()
CS_Enter ==
    /\ pc = "idle"
    /\ BeginGetCoords([NoFrame EXCEPT !.cs = "enter"])
    /\ UNCHANGED <<pending, wire, sent, dev, devpos, produced, csys, th>>

\* the body of the with statement, entered when __enter__ has returned: it
\* calls set_coords(..., undefine_coord=True)
CS_Body ==
    /\ pc = "done"
    /\ frame.phase = "end"
    /\ frame.cs = "enter"
    /\ result.kind = "return"
    /\ \E coords \in CoordMaps :
          BeginSetCoords([frame EXCEPT !.cs = "body", !.saved = result.val.coords],
                         coords, "coord", TRUE)
    /\ UNCHANGED <<pending, wire, sent, dev, devpos, produced, csys, th>>

\* CoordinateSave.__exit__, entered when the body has returned or raised:
\* self.channel.set_coords(self.coords, verbose=self.verbose)
CS_Exit ==
    /\ pc = "done"
    /\ frame.phase = "end"
    /\ frame.cs = "body"
    /\ BeginSetCoords([frame EXCEPT !.cs = "exit", !.body = result],
                      frame.saved, "none", TRUE)
    /\ UNCHANGED <<pending, wire, sent, dev, devpos, produced, csys, th>>

InitCoords ==
    /\ InitChannel
    /\ InitCall
    /\ lock = [owner |-> 0, count |-> 0]
    /\ th = <<>>
    /\ produced = <<>>
    /\ pending = <<>>
    /\ frame = NoFrame
    /\ \E b \in InitBinds, n \in InitMaxCoords : csys = [binds |-> b, maxcoords |-> n]

NextCoords ==
    \/ CallSetCoords
    \/ CS_Enter
    \/ CS_Body
    \/ CS_Exit
    \/ Issue
    \/ Continue
    \/ Advance
    \/ Interrupt
    \/ CoordDeviceExec
    \/ EmitLine
    \/ Recv
    \/ Tick
    \/ Exhaust

SpecCoords == InitCoords /\ [][NextCoords]_vars

\* no motor of the map is bound in two coordinate systems
motor_once(coords) ==
    \A i, j \in 1..Len(items(coords)) :
        items(coords)[i].motor = items(coords)[j].motor => i = j

sent_by_call == [i \in 1..(Len(sent) - frame.base) |-> command(sent[frame.base + i])]

\* C12: in the commands of one set_coords call, a bind command for a motor
\* that the mapping read during the call shows bound in a coordinate system
\* other than its target comes after the unbind command '&<current>#<motor>->0'
C12_UnbindBeforeBind ==
    frame.fn = "set_coords" =>
        \A j \in 1..Len(sent_by_call), k \in 1..Len(items(frame.coords)) :
            LET it == items(frame.coords)[k]
            IN (/\ sent_by_call[j] = assign_line(it.coord, it.motor, it.axis)
                /\ \E p \in frame.motor_to_coord : p[1] = it.motor /\ p[2] # it.coord)
               => \E i \in 1..(j - 1) :
                     sent_by_call[i] =
                         undef_line(coord_of(frame.motor_to_coord, it.motor), it.motor)

\* motor 0 is bound in coordinate system 1 and the call binds it in 2
C12_Witness ==
    /\ frame.fn = "set_coords"
    /\ frame.coords = <<Entry(2, <<Axis(0, <<"Y">>)>>)>>
    /\ <<0, 1>> \in frame.motor_to_coord
    /\ \E j \in 1..Len(sent_by_call) : sent_by_call[j] = assign_line(2, 0, <<"Y">>)

\* the call has run its check to the end: it was not ended by an interrupt
\* or by an exception of a use of the channel
Checked ==
    /\ frame.fn = "set_coords"
    /\ frame.check
    /\ frame.coords # <<>>
    /\ frame.phase = "end"
    /\ pc = "done"
    /\ result.exc \notin {"KeyboardInterrupt", "TimeoutError", "GPError"}

\* the (motor, axis) pairs read back for a coordinate system
read_back(coord) ==
    IF has_coord(frame.current, coord)
    THEN pairs(motors_of(frame.current, coord)) ELSE {}

differs(entry) == pairs(entry.motors) # read_back(entry.coord)

\* C13: with check=True, set_coords returns only if the pairs read back
\* equal the desired pairs for every coordinate system of the desired map,
\* and when they differ for some coordinate system, also when nothing was
\* read back for it, it raises the ValueError that names that coordinate
\* system
C13_VerifiedOrValueError ==
    (Checked /\ \E i \in 1..Len(frame.coords) : differs(frame.coords[i]))
        => /\ result.kind = "raise"
           /\ result.exc = "ValueError"
           /\ \E i \in 1..Len(frame.coords) :
                 differs(frame.coords[i]) /\ result.val = PyInt(frame.coords[i].coord)

\* the bindings of a map, and the bindings get_coords can read
bindings(coords) ==
    {items(coords)[i] : i \in 1..Len(items(coords))}

visible(binds) == {b \in binds : b.motor < NumMotors}

\* C15: when CoordinateSave's exit has returned and the interpreter has
\* executed every command, its bindings are those read at entry
C15_Restores ==
    (/\ frame.cs = "exit"
     /\ frame.phase = "end"
     /\ pc = "done"
     /\ result.kind = "return"
     /\ devpos = Len(sent))
        => visible(csys.binds) = bindings(frame.saved)

(***************************************************************************)
(* set_coords in one thread while other threads use the same channel: the  *)
(* whole of set_coords is inside 'with self.lock', and every other use of  *)
(* the channel takes the lock first.                                       *)
(***************************************************************************)
ThreadMaps == {<<Entry(1, <<Axis(0, <<"x">>)>>)>>}

MaxOtherCalls == 1   \* calls the other threads make in one behaviour

\* another thread may begin a call
MayCall == Cardinality({t \in Threads : th[t].pc # "idle"}) < MaxOtherCalls

\* the thread Main calls set_coords(coords, check=False)
T_SetCoords ==
    /\ pc = "idle"
    /\ \E coords \in ThreadMaps : BeginSetCoords(NoFrame, coords, "none", FALSE)
    /\ UNCHANGED <<pending, wire, sent, dev, devpos, produced, csys, th>>

InitCoordThreads ==
    /\ InitChannel
    /\ InitCall
    /\ produced = <<>>
    /\ pending = <<>>
    /\ lock = Free
    /\ th = [t \in Threads |-> Idle]
    /\ frame = NoFrame
    /\ csys = [binds |-> {Binding(2, 0, <<"x">>)}, maxcoords |-> 2]

NextCoordThreads ==
    \/ T_SetCoords
    \/ Issue
    \/ Continue
    \/ Advance
    \/ Recv
    \/ Tick
    \/ Exhaust
    \/ \E t \in Threads : MayCall /\ T_GetVariable(t)
    \/ \E t \in Threads : MayCall /\ T_SendLine(t)
    \/ \E t \in Threads : T_Sync(t)
    \/ \E t \in Threads : T_Recv(t)
    \/ \E t \in Threads : T_Tick(t)
    \/ \E t \in Threads : T_Exhaust(t)
    \/ CoordDeviceExec
    \/ EmitLine

SpecCoordThreads == InitCoordThreads /\ [][NextCoordThreads]_vars

\* set_coords has been entered with a non-empty map and has not ended
InSetCoords == frame.fn = "set_coords" /\ frame.phase \notin {"", "end"}

\* C11: while set_coords runs in one thread, from its first command to its
\* last read, no other thread sends a command or reads lines on the channel
C11_SetCoordsAtomic ==
    [][InSetCoords => \A u \in Threads : ~UsesChannel(u)]_vars

\* set_coords is reading the response to its bind command while another
\* thread, which has sent a line, waits for the lock to read the response
C11_Witness ==
    /\ InSetCoords
    /\ frame.phase = "bind"
    /\ pc = "reading"
    /\ lock.owner = Main
    /\ \E u \in Threads : th[u].pc = "sent"

(***************************************************************************)
(* ppmac.fast_gather: the binary client.  A byte is a number in 0..255 and *)
(* a byte string a sequence of bytes.  The server's octets is a sequence   *)
(* of frames: a 4-byte big-endian length, then that many bytes, the first  *)
(* of which is the frame's type code.                                      *)
(***************************************************************************)
ord_E == 69   \* b'E'
ord_T == 84   \* b'T'
ord_D == 68   \* b'D'
ord_K == 75   \* b'K'

\* struct.unpack('>I', b) and struct.unpack('>H', b) of a string of the
\* right length
be32(b) == ((b[1] * 256 + b[2]) * 256 + b[3]) * 256 + b[4]

be16(b) == b[1] * 256 + b[2]

\* struct.pack('>I', n)
pack_I(n) ==
    <<(n \div 16777216) % 256, (n \div 65536) % 256, (n \div 256) % 256, n % 256>>

PyBytes(b) == [type |-> "bytes", s |-> <<>>, n |-> 0, bytes |-> b]

StructError == Raise("struct.error", PyNone)

Received(res, rest) == [result |-> res, rest |-> rest]

\* a _recv_packet without the test for the error code
_recv_packet_no_error_code(octets, expected_code) ==
    LET packet_len == be32(Take(octets, 4))
        packet == Take(Drop(octets, 4), packet_len)
        rest == Drop(octets, 4 + packet_len)
    IN IF Len(Take(octets, 4)) # 4 THEN Received(StructError, <<>>)
       ELSE IF Len(packet) < packet_len
       THEN Received(Raise("RuntimeError", PyNone), <<>>)
       ELSE IF expected_code = Take(packet, 1)
       THEN Received(Return(PyBytes(Drop(packet, 1))), rest)
       ELSE Received(Raise("RuntimeError", PyBytes(Take(packet, 1))), rest)

\* GatherClient._recv_packet on the bytes the socket delivers: the result
\* and the bytes left in the stream
_recv_packet(octets, expected_code) ==
    LET packet_len == be32(Take(octets, 4))
        packet == Take(Drop(octets, 4), packet_len)
        rest == Drop(octets, 4 + packet_len)
        code == Take(packet, 1)
        body == Drop(packet, 1)
    IN IF Len(Take(octets, 4)) # 4 THEN Received(StructError, <<>>)
       ELSE IF Len(packet) < packet_len
       THEN Received(Raise("RuntimeError", PyNone), <<>>)
       ELSE IF code = <<ord_E>>
       THEN IF Len(Take(body, 4)) = 4
            THEN Received(Raise("GatherError", PyInt(be32(Take(body, 4)))), rest)
            ELSE Received(StructError, rest)
       ELSE IF expected_code = code
       THEN Received(Return(PyBytes(body)), rest)
       ELSE Received(Raise("RuntimeError", PyBytes(code)), rest)

\* n_items, = struct.unpack('B', buf[:1]);
\* types = struct.unpack('>' + 'H' * n_items, buf[1:])
unpack_types(b) ==
    IF b = <<>> \/ Len(b) - 1 # 2 * b[1] THEN StructError
    ELSE Return([type |-> "types",
                 types |-> [i \in 1..b[1] |-> be16(SubSeq(b, 2 * i, 2 * i + 1))]])

\* samples, = struct.unpack('>I', buf[:4]); return samples, buf[4:]
unpack_data(b) ==
    IF Len(b) < 4 THEN StructError
    ELSE Return([type |-> "data", samples |-> be32(Take(b, 4)),
                 raw_data |-> Drop(b, 4)])

query_types(octets) ==
    LET p == _recv_packet(octets, <<ord_T>>)
    IN IF p.result.kind = "raise" THEN p
       ELSE Received(unpack_types(p.result.val.bytes), p.rest)

query_raw_data(octets) ==
    LET p == _recv_packet(octets, <<ord_D>>)
    IN IF p.result.kind = "raise" THEN p
       ELSE Received(unpack_data(p.result.val.bytes), p.rest)

PyAll(types, samples, raw_data) ==
    [type |-> "all", types |-> types, samples |-> samples, raw_data |-> raw_data]

query_types_and_raw_data(octets) ==
    LET t == query_types(octets)
        d == query_raw_data(t.rest)
    IN IF t.result.kind = "raise" THEN t
       ELSE IF t.result.val.types = <<>>
       THEN Received(Return(PyAll(<<>>, 0, <<>>)), t.rest)
       ELSE IF d.result.kind = "raise" THEN d
       ELSE Received(Return(PyAll(t.result.val.types, d.result.val.samples,
                                  d.result.val.raw_data)), d.rest)

(***************************************************************************)
(* ppmac.gather_types and the decoding of the raw gather data.  A decoded  *)
(* number is an "int" with its value; a float or a double is kept as the   *)
(* bytes of its IEEE-754 encoding, which determine it.                     *)
(***************************************************************************)
UINT32 == 0
INT32 == 1
UINT24 == 2
INT24 == 3
FLOAT == 4
DOUBLE == 5
UBITS == 6
SBITS == 7

PyNum(n) == [type |-> "int", n |-> n, bytes |-> <<>>]

PyFloat(b) == [type |-> "float", n |-> 0, bytes |-> b]

GatherType(size, format_, conv, start, count) ==
    [size |-> size, format |-> format_, conv |-> conv, start |-> start, count |-> count]

GATHER_TYPES ==
    [t \in 0..7 |->
        IF t = INT24 THEN GatherType(4, "4B", "conv_int24", 0, 0)
        ELSE IF t = INT32 THEN GatherType(4, "i", "None", 0, 0)
        ELSE IF t = FLOAT THEN GatherType(4, "f", "None", 0, 0)
        ELSE IF t = DOUBLE THEN GatherType(8, "d", "None", 0, 0)
        ELSE GatherType(4, "I", "None", 0, 0)]

START_MASK == 63488   \* 0xF800
BIT_MASK == 2047      \* 0x07FF

\* x & mask for a mask of the shape 1..10..0: the bits of x from low_bit up
\* to the mask's top bit
bits_from(x, low_bit, top) == (x % top) - (x % low_bit)

\* a _get_type that takes the low bits of the code as the field width
_get_type_raw_count(type_) ==
    IF type_ \in DOMAIN GATHER_TYPES THEN GATHER_TYPES[type_]
    ELSE GatherType(4, "I", "conv_bits", bits_from(type_, 2048, 65536) \div 2048,
                    bits_from(type_, 1, 2048) \div 64)

\* GatherClient._get_type
_get_type(type_) ==
    IF type_ \in DOMAIN GATHER_TYPES THEN GATHER_TYPES[type_]
    ELSE LET start == bits_from(type_, 2048, 65536) \div 2048
             count == 32 - (bits_from(type_, 1, 2048) \div 64)
         IN GatherType(4, "I", "conv_bits", start, count)

\* the 32-bit two's complement reading of four bytes
signed32(b) ==
    ((((IF b[1] >= 128 THEN b[1] - 256 ELSE b[1]) * 256 + b[2]) * 256 + b[3]) * 256) + b[4]

\* struct.unpack of one format item: the values it contributes
unpack_item(format_, b) ==
    IF format_ = "I" THEN <<PyNum(be32(b))>>
    ELSE IF format_ = "i" THEN <<PyNum(signed32(b))>>
    ELSE IF format_ = "4B" THEN <<PyNum(b[1]), PyNum(b[2]), PyNum(b[3]), PyNum(b[4])>>
    ELSE <<PyFloat(b)>>

RECURSIVE unpack_line(_, _)
\* the values of one line: its items in type order
unpack_line(types, line) ==
    IF types = <<>> THEN <<>>
    ELSE unpack_item(Head(types).format, Take(line, Head(types).size))
         \o unpack_line(Tail(types), Drop(line, Head(types).size))

RECURSIVE sum_sizes(_)
sum_sizes(types) ==
    IF types = <<>> THEN 0 ELSE Head(types).size + sum_sizes(Tail(types))

RECURSIVE unpack_lines(_, _, _)
\* struct.Struct('>' + data_format * line_count).unpack(raw_data)
unpack_lines(types, raw_data, line_count) ==
    IF line_count = 0 THEN <<>>
    ELSE unpack_line(types, Take(raw_data, sum_sizes(types)))
         \o unpack_lines(types, Drop(raw_data, sum_sizes(types)), line_count - 1)

\* data[i::n] for a 0-based i
stride(data, i, n) ==
    IF Len(data) <= i THEN <<>>
    ELSE [m \in 1..((Len(data) - i + n - 1) \div n) |-> data[i + 1 + (m - 1) * n]]

\* the conversion function of a type applied to a column; conv_int24 indexes
\* each value (b[1]), which an int does not support
conv(type, col) ==
    IF type.conv = "None" THEN Return(col)
    ELSE IF type.conv = "conv_bits"
    THEN Return([m \in 1..Len(col) |->
                    PyNum((col[m].n \div (2 ^ type.start)) % (2 ^ type.count))])
    ELSE IF col = <<>> THEN Return(<<>>)
    ELSE Raise("TypeError", PyNone)

PyParsed(data, n_items, line_count) ==
    [type |-> "parsed", data |-> data, n_items |-> n_items, line_count |-> line_count]

\* GatherClient._parse_raw_data
_parse_raw_data(type_codes, raw_data) ==
    LET n_items == Len(type_codes)
        types == [i \in 1..n_items |-> _get_type(type_codes[i])]
        line_size == sum_sizes(types)
        line_count == Len(raw_data) \div line_size
        data == unpack_lines(types, raw_data, line_count)
        cols == [i \in 1..n_items |-> conv(types[i], stride(data, i - 1, n_items))]
    IN IF line_size = 0 THEN Raise("ZeroDivisionError", PyNone)
       ELSE IF \E i \in 1..n_items : cols[i].kind = "raise"
       THEN cols[CHOOSE i \in 1..n_items :
                    /\ cols[i].kind = "raise"
                    /\ \A j \in 1..(i - 1) : cols[j].kind # "raise"]
       ELSE Return(PyParsed([i \in 1..n_items |-> cols[i].val], n_items, line_count))

\* GatherClient._query_all; the reply of the query is bound as a value
_query_all(octets) ==
    LET processed(q) ==
            IF q.result.kind = "raise" THEN q
            ELSE IF q.result.val.samples = 0
            THEN Received(Return(PyParsed(<<>>, Len(q.result.val.types), 0)), q.rest)
            ELSE Received(_parse_raw_data(q.result.val.types, q.result.val.raw_data),
                          q.rest)
    IN CHOOSE r \in {processed(q) : q \in {query_types_and_raw_data(octets)}} : TRUE

PyList(items_) == [type |-> "list", items |-> items_]

\* GatherClient.get_columns(as_numpy=False)
get_columns(octets) ==
    LET q == _query_all(octets)
    IN IF q.result.kind = "raise" THEN q
       ELSE Received(Return(PyList(q.result.val.data)), q.rest)

\* the length of the shortest column: zip stops there
shortest(data) ==
    IF data = <<>> THEN 0
    ELSE CHOOSE k \in {Len(data[i]) : i \in DOMAIN data} :
            \A i \in DOMAIN data : k <= Len(data[i])

\* list(zip(*data))
zip_star(data) ==
    [r \in 1..shortest(data) |-> [i \in DOMAIN data |-> data[i][r]]]

\* a get_rows that hands back the columns without transposing them
get_rows_as_columns(octets) == get_columns(octets)

\* GatherClient.get_rows(as_numpy=False)
get_rows(octets) ==
    LET q == _query_all(octets)
    IN IF q.result.kind = "raise" THEN q
       ELSE Received(Return(PyList(zip_star(q.result.val.data))), q.rest)

(***************************************************************************)
(* The gather client against a server's stream.  `produced` holds the      *)
(* frames the server wrote and `wire` their bytes; a call reads from the   *)
(* front of `wire`.  `sent` collects the requests.                         *)
(***************************************************************************)
Frame(code, data) == [code |-> code, payload |-> data]

\* gather_serve's framing: length, code, payload
encode(f) == pack_I(1 + Len(f.payload)) \o <<f.code>> \o f.payload

RECURSIVE encode_all(_)
encode_all(fs) ==
    IF fs = <<>> THEN <<>> ELSE encode(Head(fs)) \o encode_all(Tail(fs))

\* a bit-field type code: 8 bits from bit 4
BitsCode == 9728

\* the sample bytes the model feeds in: two patterns, one below 128 only
sample_byte(pattern, j) ==
    IF pattern = 1 THEN (j * 37) % 128 ELSE (5 + j * 67) % 256

sample_bytes(pattern, n) == [j \in 1..n |-> sample_byte(pattern, j)]

TypesFrame(codes) ==
    Frame(ord_T, <<Len(codes)>>
                 \o [j \in 1..(2 * Len(codes)) |->
                        IF j % 2 = 1 THEN codes[(j + 1) \div 2] \div 256
                        ELSE codes[j \div 2] % 256])

DataFrame(samples, raw_data) == Frame(ord_D, pack_I(samples) \o raw_data)

MaxFrames == 2

FrameSet ==
    { TypesFrame(<<>>), TypesFrame(<<UINT32>>), TypesFrame(<<FLOAT, DOUBLE>>),
      TypesFrame(<<INT24>>),
      DataFrame(0, <<>>), DataFrame(1, sample_bytes(1, 4)),
      DataFrame(2, sample_bytes(1, 8)), DataFrame(1, sample_bytes(2, 12)),
      Frame(ord_K, <<>>), Frame(ord_E, <<0, 0, 1, 7>>), Frame(88, <<1>>) }

FrameSeqs == UNION {[1..n -> FrameSet] : n \in 0..MaxFrames}

GatherCall(name, expected_code, types, raw_data) ==
    [name |-> name, expected_code |-> expected_code, types |-> types,
     raw_data |-> raw_data]

\* a call of the client: its request goes out, its frames are read, it ends
gather_call(name, expected_code, request, received) ==
    /\ pc = "idle"
    /\ pc' = "done"
    /\ op' = GatherCall(name, expected_code, <<>>, <<>>)
    /\ sent' = IF request = <<>> THEN sent ELSE Append(sent, request)
    /\ wire' = received.rest
    /\ result' = received.result
    /\ UNCHANGED <<pending, dev, devpos, timeout, elapsed, buf, yielded, ret,
                   produced, lock, th, csys, frame>>

Call_recv_packet ==
    \E expected_code \in {<<ord_T>>, <<ord_D>>, <<ord_K>>} :
        gather_call("_recv_packet", expected_code, <<>>,
                    _recv_packet(wire, expected_code))

CallQueryTypes == gather_call("query_types", <<>>, <<"t", "y", "p", "e", "s">>, query_types(wire))

CallQueryRawData == gather_call("query_raw_data", <<>>, <<"d", "a", "t", "a">>, query_raw_data(wire))

CallQueryTypesAndRawData ==
    gather_call("query_types_and_raw_data", <<>>, <<"a", "l", "l">>, query_types_and_raw_data(wire))

CallGetColumns == gather_call("get_columns", <<>>, <<"a", "l", "l">>, get_columns(wire))

CallGetRows == gather_call("get_rows", <<>>, <<"a", "l", "l">>, get_rows(wire))

MaxRows == 2

TypeLists ==
    { <<UINT32>>, <<INT32>>, <<INT24>>, <<BitsCode>>, <<FLOAT, DOUBLE>>,
      <<DOUBLE, INT32>>, <<UINT32, INT24>>, <<UBITS, UINT24, SBITS>> }

line_size_of(type_codes) ==
    sum_sizes([i \in 1..Len(type_codes) |-> _get_type(type_codes[i])])

\* the model's numbers are below 2^31: a field read as unsigned starts with
\* a byte below 128
Representable(type_codes, raw_data) ==
    \A r \in 1..(Len(raw_data) \div line_size_of(type_codes)) :
        \A i \in 1..Len(type_codes) :
            _get_type(type_codes[i]).format = "I" =>
                raw_data[(r - 1) * line_size_of(type_codes)
                         + line_size_of(Take(type_codes, i - 1)) + 1] < 128

\* _parse_raw_data reads no stream: it is applied where none is modelled
Call_parse_raw_data ==
    \E type_codes \in TypeLists, k \in 0..MaxRows, pattern \in {1, 2} :
        LET raw_data == sample_bytes(pattern, k * line_size_of(type_codes))
        IN /\ Representable(type_codes, raw_data)
           /\ produced = <<>>
           /\ pc = "idle"
           /\ pc' = "done"
           /\ op' = GatherCall("_parse_raw_data", <<>>, type_codes, raw_data)
           /\ result' = _parse_raw_data(type_codes, raw_data)
           /\ UNCHANGED <<pending, wire, sent, dev, devpos, timeout, elapsed, buf,
                          yielded, ret, produced, lock, th, csys, frame>>

InitGather ==
    /\ InitCall
    /\ InitExt
    /\ sent = <<>>
    /\ dev = <<"0">>
    /\ devpos = 0
    /\ pending = <<>>
    /\ lock = [owner |-> 0, count |-> 0]
    /\ th = <<>>
    /\ \E fs \in FrameSeqs :
        /\ produced = fs
        /\ wire = encode_all(fs)

NextGather ==
    \/ Call_recv_packet
    \/ CallQueryTypes
    \/ CallQueryRawData
    \/ CallQueryTypesAndRawData
    \/ CallGetColumns
    \/ CallGetRows
    \/ Call_parse_raw_data

SpecGather == InitGather /\ [][NextGather]_vars

(***************************************************************************)
(* Claims about the gather client.                                         *)
(***************************************************************************)
\* the number of the server's frames the call has read
frames_read ==
    CHOOSE c \in 0..Len(produced) :
        wire = encode_all(SubSeq(produced, c + 1, Len(produced)))

field_bytes(type_codes, raw_data, r, i) ==
    LET start == (r - 1) * line_size_of(type_codes)
                 + line_size_of(Take(type_codes, i - 1))
    IN SubSeq(raw_data, start + 1, start + line_size_of(<<type_codes[i]>>))

\* the 24-bit two's complement reading of the last three of four bytes
signed24(b) ==
    ((IF b[2] >= 128 THEN b[2] - 256 ELSE b[2]) * 256 + b[3]) * 256 + b[4]

\* the value a field of the given type holds
field_value(type_code, b) ==
    IF type_code \in {FLOAT, DOUBLE} THEN PyFloat(b)
    ELSE IF type_code = INT32 THEN PyNum(signed32(b))
    ELSE IF type_code = INT24 THEN PyNum(signed24(b))
    ELSE IF type_code \in 0..7 THEN PyNum(be32(b))
    ELSE PyNum((be32(b) \div (2 ^ ((type_code % 65536) \div 2048)))
               % (2 ^ (32 - ((type_code % 2048) \div 64))))

\* C17: _parse_raw_data on n type codes and a payload of k whole rows
\* returns n columns of k entries, entry r of column i being the decoded
\* value of field i of row r.
C17_Deinterleaved ==
    (pc = "done" /\ op.name = "_parse_raw_data") =>
        LET n == Len(op.types)
            k == Len(op.raw_data) \div line_size_of(op.types)
        IN /\ result.kind = "return"
           /\ Len(result.val.data) = n
           /\ \A i \in 1..n :
                /\ Len(result.val.data[i]) = k
                /\ \A r \in 1..k :
                     result.val.data[i][r] =
                        field_value(op.types[i], field_bytes(op.types, op.raw_data, r, i))

\* the same without INT24 among the types
S17_DeinterleavedWithoutInt24 ==
    (/\ pc = "done"
     /\ op.name = "_parse_raw_data"
     /\ \A i \in 1..Len(op.types) : op.types[i] # INT24) => C17_Deinterleaved

GatheredLists == {<<>>, <<UINT32>>, <<FLOAT, DOUBLE>>, <<INT24>>}

\* the server wrote a gather result: the types of n addresses and, when
\* n > 0, a data frame of as many whole rows as its sample count says
IsGatherResult(codes, samples) ==
    /\ produced # <<>>
    /\ produced[1] = TypesFrame(codes)
    /\ IF codes = <<>> THEN samples = 0
       ELSE /\ Len(produced) >= 2
            /\ produced[2].code = ord_D
            /\ Len(produced[2].payload) = 4 + samples * line_size_of(codes)
            /\ be32(Take(produced[2].payload, 4)) = samples

\* rows of width n, one per sample, holding the rows' fields
rows_of(rows, codes, samples) ==
    /\ Len(rows) = samples
    /\ \A r \in 1..samples :
        /\ Len(rows[r]) = Len(codes)
        /\ \A i \in 1..Len(codes) :
             rows[r][i] =
                field_value(codes[i], field_bytes(codes, Drop(produced[2].payload, 4), r, i))

\* n columns, one per address, holding the same fields
columns_of(cols, codes, samples) ==
    /\ Len(cols) = Len(codes)
    /\ \A i \in 1..Len(codes) :
        /\ Len(cols[i]) = samples
        /\ \A r \in 1..samples :
             cols[i][r] =
                field_value(codes[i], field_bytes(codes, Drop(produced[2].payload, 4), r, i))

program_start == <<"&", "1", "b", "e", "g", "i", "n", "5", "r">>

program_stop == <<"&", "1", "b", "e", "g", "i", "n", "5", "a", "b", "o", "r", "t">>

prog_active_var == <<"C", "o", "o", "r", "d", "[", "1", "]", ".", "P", "r", "o", "g", "A", "c", "t", "i", "v", "e">>

error_status_var == <<"C", "o", "o", "r", "d", "[", "1", "]", ".", "E", "r", "r", "o", "r", "S", "t", "a", "t", "u", "s">>

gather_samples_var == <<"g", "a", "t", "h", "e", "r", ".", "s", "a", "m", "p", "l", "e", "s">>

gather_enable_var == <<"g", "a", "t", "h", "e", "r", ".", "e", "n", "a", "b", "l", "e">>

\* set_variable('gather.enable', 2) and set_variable('gather.enable', 0)
gather_enable_2 == <<"g", "a", "t", "h", "e", "r", ".", "e", "n", "a", "b", "l", "e", "=", "2">>

gather_enable_0 == <<"g", "a", "t", "h", "e", "r", ".", "e", "n", "a", "b", "l", "e", "=", "0">>

MaxPolls == 5
MaxSamples == 2

Remote(prog, enable, samples) == [prog |-> prog, enable |-> enable, samples |-> samples]

\* what the remote side answers for the status variable that is polled
status(remote, check_active) ==
    IF check_active THEN (IF remote.prog = "active" THEN 1 ELSE 0) ELSE remote.enable

remote_begin(remote) == Remote("pending", remote.enable, remote.samples)

remote_abort(remote) ==
    IF remote.prog \in {"pending", "active"} THEN Remote("aborted", 0, remote.samples)
    ELSE remote

RunFrame(fn, at, variables, total_samples, check_active, cancel_callback) ==
    [fn |-> fn, at |-> at, variables |-> variables, total_samples |-> total_samples,
     check_active |-> check_active, cancel_callback |-> cancel_callback,
     active |-> <<TRUE, TRUE, TRUE>>, samples |-> 0, polls |-> 0,
     interrupted |-> "", cancelled |-> FALSE]

runRest ==
    <<pending, wire, dev, devpos, op, timeout, elapsed, buf, yielded, ret,
      produced, lock, th>>

At(fn, at) == pc = "running" /\ frame.fn = fn /\ frame.at = at

goto(at) == frame' = [frame EXCEPT !.at = at]

continues == UNCHANGED <<pc, result>>

finish(res) == pc' = "done" /\ result' = res

\* the statements inside the try block of each function
in_try(fn, at) ==
    IF fn = "run_and_gather" THEN at \in {"wait_start", "wait_end"} ELSE at = "poll"

CallRunAndWait ==
    \E variables \in {<<>>, <<<<"P", "1">>>>} :
        /\ pc = "idle"
        /\ pc' = "running"
        /\ frame' = RunFrame("run_and_wait", "start", variables, 0, TRUE, FALSE)
        /\ UNCHANGED <<sent, csys, result, runRest>>

\* self.program(coord_sys, program, start=True)
RW_Start ==
    /\ At("run_and_wait", "start")
    /\ sent' = Append(sent, program_start)
    /\ csys' = remote_begin(csys)
    /\ goto("before_try")
    /\ continues
    /\ UNCHANGED runRest

\* the statements between the start and the try: last_values is read there
RW_BeforeTry ==
    /\ At("run_and_wait", "before_try")
    /\ sent' = sent \o frame.variables
    /\ goto("poll")
    /\ continues
    /\ UNCHANGED <<csys, runRest>>

\* the loop of run_and_wait leaving as soon as one reading is inactive
RW_Poll_last_reading ==
    /\ At("run_and_wait", "poll")
    /\ IF frame.active[3]
       THEN /\ frame.polls < MaxPolls
            /\ sent' = Append(sent, prog_active_var) \o frame.variables
            /\ frame' = [frame EXCEPT
                            !.active = Append(Tail(frame.active), status(csys, TRUE) # 0),
                            !.polls = frame.polls + 1]
       ELSE /\ goto("after")
            /\ UNCHANGED sent
    /\ continues
    /\ UNCHANGED <<csys, runRest>>

\* while any(active): active.pop(0); active.append(get_active()); the
\* variables are read or the loop sleeps
RW_Poll ==
    /\ At("run_and_wait", "poll")
    /\ IF \E i \in 1..3 : frame.active[i]
       THEN /\ frame.polls < MaxPolls
            /\ sent' = Append(sent, prog_active_var) \o frame.variables
            /\ frame' = [frame EXCEPT
                            !.active = Append(Tail(frame.active), status(csys, TRUE) # 0),
                            !.polls = frame.polls + 1]
       ELSE /\ goto("after")
            /\ UNCHANGED sent
    /\ continues
    /\ UNCHANGED <<csys, runRest>>

\* after the loop: get_active() for the log, then the error status is read
\* and returned
RW_After ==
    /\ At("run_and_wait", "after")
    /\ sent' = sent \o <<prog_active_var, error_status_var>>
    /\ goto("end")
    /\ finish(Return(PyInt(0)))
    /\ UNCHANGED <<csys, runRest>>

\* except KeyboardInterrupt: if get_active(): self.program(stop=True); raise
RW_Handler ==
    /\ At("run_and_wait", "handler")
    /\ IF status(csys, TRUE) # 0
       THEN /\ sent' = sent \o <<prog_active_var, program_stop>>
            /\ csys' = remote_abort(csys)
       ELSE /\ sent' = Append(sent, prog_active_var)
            /\ UNCHANGED csys
    /\ goto("end")
    /\ finish(Raise("KeyboardInterrupt", PyNone))
    /\ UNCHANGED runRest

CallGather ==
    \E total_samples \in 0..MaxSamples :
        /\ pc = "idle"
        /\ pc' = "running"
        /\ frame' = RunFrame("gather", "start", <<>>, total_samples, FALSE, FALSE)
        /\ UNCHANGED <<sent, csys, result, runRest>>

\* gpascii.set_variable('gather.enable', 2)
G_Enable ==
    /\ At("gather", "start")
    /\ sent' = Append(sent, gather_enable_2)
    /\ csys' = Remote(csys.prog, 2, csys.samples)
    /\ goto("before_try")
    /\ continues
    /\ UNCHANGED runRest

\* samples = 0; logger.info(...)
G_BeforeTry ==
    /\ At("gather", "before_try")
    /\ goto("poll")
    /\ continues
    /\ UNCHANGED <<sent, csys, runRest>>

\* while samples < total_samples: samples = get_variable('gather.samples')
G_Poll ==
    /\ At("gather", "poll")
    /\ IF frame.samples < frame.total_samples
       THEN /\ frame.polls < MaxPolls
            /\ sent' = Append(sent, gather_samples_var)
            /\ frame' = [frame EXCEPT !.samples = csys.samples,
                                      !.polls = frame.polls + 1]
       ELSE /\ goto("after")
            /\ UNCHANGED sent
    /\ continues
    /\ UNCHANGED <<csys, runRest>>

\* except KeyboardInterrupt: pass
G_Handler ==
    /\ At("gather", "handler")
    /\ goto("after")
    /\ continues
    /\ UNCHANGED <<sent, csys, runRest>>

\* gpascii.set_variable('gather.enable', 0); return get_gather_results(...)
G_After ==
    /\ At("gather", "after")
    /\ sent' = Append(sent, gather_enable_0)
    /\ csys' = Remote(csys.prog, 0, csys.samples)
    /\ goto("end")
    /\ finish(Return(PyInt(csys.samples)))
    /\ UNCHANGED runRest

CallRunAndGather ==
    \E check_active \in BOOLEAN, cancel_callback \in BOOLEAN :
        /\ pc = "idle"
        /\ pc' = "running"
        /\ frame' = RunFrame("run_and_gather", "start", <<>>, 0, check_active,
                             cancel_callback)
        /\ UNCHANGED <<sent, csys, result, runRest>>

\* gpascii.program(coord_sys, prog, start=True)
RG_Start ==
    /\ At("run_and_gather", "start")
    /\ sent' = Append(sent, program_start)
    /\ csys' = remote_begin(csys)
    /\ goto("before_try")
    /\ continues
    /\ UNCHANGED runRest

\* active_var is chosen and get_status defined
RG_BeforeTry ==
    /\ At("run_and_gather", "before_try")
    /\ goto("wait_start")
    /\ continues
    /\ UNCHANGED <<sent, csys, runRest>>

status_var(check_active) == IF check_active THEN prog_active_var ELSE gather_enable_var

\* while get_status() == 0: time.sleep(0.1)
RG_WaitStart ==
    /\ At("run_and_gather", "wait_start")
    /\ frame.polls < MaxPolls
    /\ sent' = Append(sent, status_var(frame.check_active))
    /\ frame' = [frame EXCEPT
                    !.at = IF status(csys, frame.check_active) = 0
                           THEN "wait_start" ELSE "wait_end",
                    !.polls = frame.polls + 1]
    /\ continues
    /\ UNCHANGED <<csys, runRest>>

\* while get_status() != 0: samples = get_variable('gather.samples')
RG_WaitEnd ==
    /\ At("run_and_gather", "wait_end")
    /\ frame.polls < MaxPolls
    /\ IF status(csys, frame.check_active) # 0
       THEN /\ sent' = sent \o <<status_var(frame.check_active), gather_samples_var>>
            /\ frame' = [frame EXCEPT !.samples = csys.samples,
                                      !.polls = frame.polls + 1]
       ELSE /\ sent' = Append(sent, status_var(frame.check_active))
            /\ frame' = [frame EXCEPT !.at = "after", !.polls = frame.polls + 1]
    /\ continues
    /\ UNCHANGED <<csys, runRest>>

\* a handler that calls the callback only
RG_Handler_without_stop ==
    /\ At("run_and_gather", "handler")
    /\ frame' = [frame EXCEPT !.at = "after", !.cancelled = frame.cancel_callback]
    /\ continues
    /\ UNCHANGED <<sent, csys, runRest>>

\* except KeyboardInterrupt as ex: gpascii.program(coord_sys, prog,
\* stop=True); cancel_callback(ex) when one is given
RG_Handler ==
    /\ At("run_and_gather", "handler")
    /\ sent' = Append(sent, program_stop)
    /\ csys' = remote_abort(csys)
    /\ frame' = [frame EXCEPT !.at = "after", !.cancelled = frame.cancel_callback]
    /\ continues
    /\ UNCHANGED runRest

\* the pending lines are read and the gather results returned
RG_After ==
    /\ At("run_and_gather", "after")
    /\ goto("end")
    /\ finish(Return(PyInt(csys.samples)))
    /\ UNCHANGED <<sent, csys, runRest>>

\* KeyboardInterrupt is raised at the statement the function is at, once it
\* has issued its first command: inside the try it enters the handler,
\* elsewhere it reaches the caller
RaiseKeyboardInterrupt ==
    /\ pc = "running"
    /\ frame.interrupted = ""
    /\ frame.at # "start"
    /\ IF in_try(frame.fn, frame.at)
       THEN /\ frame' = [frame EXCEPT !.at = "handler", !.interrupted = frame.at]
            /\ continues
       ELSE /\ frame' = [frame EXCEPT !.at = "end", !.interrupted = frame.at]
            /\ finish(Raise("KeyboardInterrupt", PyNone))
    /\ UNCHANGED <<sent, csys, runRest>>

\* the remote side starts the program it was told to run
RemoteStart ==
    /\ pc = "running"
    /\ csys.prog = "pending"
    /\ csys' = Remote("active", IF frame.fn = "run_and_gather" THEN 2 ELSE csys.enable,
                      csys.samples)
    /\ UNCHANGED <<sent, pc, result, frame, runRest>>

\* the program runs to its end
RemoteFinish ==
    /\ pc = "running"
    /\ csys.prog = "active"
    /\ csys' = Remote("finished", IF frame.fn = "run_and_gather" THEN 0 ELSE csys.enable,
                      csys.samples)
    /\ UNCHANGED <<sent, pc, result, frame, runRest>>

\* the gather takes a sample
RemoteSample ==
    /\ pc = "running"
    /\ csys.enable = 2
    /\ csys.samples < MaxSamples
    /\ csys' = Remote(csys.prog, csys.enable, csys.samples + 1)
    /\ UNCHANGED <<sent, pc, result, frame, runRest>>

InitRun ==
    /\ InitChannel
    /\ InitCall
    /\ pending = <<>>
    /\ produced = <<>>
    /\ lock = [owner |-> 0, count |-> 0]
    /\ th = <<>>
    /\ csys = Remote("idle", 0, 0)
    /\ frame = RunFrame("", "", <<>>, 0, FALSE, FALSE)

NextRun ==
    \/ CallRunAndWait
    \/ RW_Start
    \/ RW_BeforeTry
    \/ RW_Poll
    \/ RW_After
    \/ RW_Handler
    \/ CallGather
    \/ G_Enable
    \/ G_BeforeTry
    \/ G_Poll
    \/ G_Handler
    \/ G_After
    \/ CallRunAndGather
    \/ RG_Start
    \/ RG_BeforeTry
    \/ RG_WaitStart
    \/ RG_WaitEnd
    \/ RG_Handler
    \/ RG_After
    \/ RaiseKeyboardInterrupt
    \/ RemoteStart
    \/ RemoteFinish
    \/ RemoteSample

SpecRun == InitRun /\ [][NextRun]_vars

program_stopped == \E i \in 1..Len(sent) : sent[i] = program_stop

gather_disabled == \E i \in 1..Len(sent) : sent[i] = gather_enable_0

\* C19: a run_and_wait interrupted after it started the program has sent
\* the abort for the program by the time the interruption reaches the
\* caller, and it ends with the KeyboardInterrupt.
C19_AbortThenReraise ==
    (frame.fn = "run_and_wait" /\ frame.interrupted # "" /\ pc = "done") =>
        /\ result = Raise("KeyboardInterrupt", PyNone)
        /\ program_stopped

interrupted_polling ==
    /\ frame.fn \in {"gather", "run_and_gather"}
    /\ frame.interrupted # ""
    /\ in_try(frame.fn, frame.interrupted)

stopped ==
    IF frame.fn = "gather" THEN gather_disabled ELSE program_stopped

\* C20 as stated: gather or run_and_gather interrupted in its polling has
\* stopped the remote operation (gather.enable=0 written, or the program
\* abort sent) when it ends, and it ends with the KeyboardInterrupt.
C20_StopThenPropagate ==
    (interrupted_polling /\ pc = "done") =>
        /\ stopped
        /\ result = Raise("KeyboardInterrupt", PyNone)

\* C20 amended: gather or run_and_gather interrupted in its polling stops
\* the remote operation and then returns its results; the KeyboardInterrupt
\* does not reach the caller (run_and_gather hands it to cancel_callback
\* when one is given).
C20_StopThenReturn ==
    /\ interrupted_polling => result.exc # "KeyboardInterrupt"
    /\ (interrupted_polling /\ pc = "done") =>
          /\ stopped
          /\ result.kind = "return"
          /\ frame.cancelled = (frame.fn = "run_and_gather" /\ frame.cancel_callback)

\* run_and_gather interrupted while the program runs, with a callback
C20_Witness ==
    /\ pc = "done"
    /\ frame.fn = "run_and_gather"
    /\ frame.interrupted = "wait_end"
    /\ frame.cancelled
    /\ program_stopped
    /\ csys.prog = "aborted"
    /\ result.kind = "return"

(***************************************************************************)
(* Claims about the steps of set_coords.                                   *)
(***************************************************************************)
\* the call has sent an abort: its capacity step is behind it
past_capacity ==
    /\ frame.fn = "set_coords"
    /\ frame.coords # <<>>
    /\ \E j \in 1..Len(sent_by_call) : sent_by_call[j] = abort_line(frame.coords[1].coord)

\* C28: once set_coords is past its capacity step and the interpreter has
\* executed what was sent, Sys.MaxCoords is at least the highest coordinate
\* system id of the desired map plus one.
C28_CapacityForHighestId ==
    (past_capacity /\ devpos = Len(sent))
        => csys.maxcoords >= max_coord(frame.coords) + 1


\* the step of set_coords that sends a command: 1 abort, 2 clear, 3 unbind,
\* 4 bind, and 0 for the reads of variables and of motor definitions
step_of(cmd) ==
    LET its == items(frame.coords)
        cs  == {frame.coords[i].coord : i \in 1..Len(frame.coords)}
    IN IF \E c \in cs : cmd = abort_line(c) THEN 1
       ELSE IF cmd = undefine_all_line \/ \E c \in cs : cmd = undefine_line(c) THEN 2
       ELSE IF \E i \in 1..Len(its), p \in frame.motor_to_coord :
                   cmd = undef_line(p[2], its[i].motor) THEN 3
       ELSE IF \E i \in 1..Len(its) :
                   cmd = assign_line(its[i].coord, its[i].motor, its[i].axis) THEN 4
       ELSE 0

\* C29: every command that set_coords sends belongs to a step not before the
\* step of any command the call sent earlier, in the order abort, clear,
\* unbind, bind; when a clear, unbind or bind is sent, every coordinate
\* system of the desired map has been aborted; the clears are one
\* 'undefine all', or undefines of single coordinate systems, or none, as
\* the call's options say.
C29_PhaseOrder ==
    [][(frame.fn = "set_coords" /\ sent' # sent) =>
          LET cmd == command(sent'[Len(sent')])
              s == step_of(cmd)
              n == Len(sent_by_call)
          IN s > 0 =>
               /\ \A j \in 1..n : step_of(sent_by_call[j]) <= s
               /\ s >= 2 => \A k \in 1..Len(frame.coords) : \E i \in 1..n :
                                sent_by_call[i] = abort_line(frame.coords[k].coord)
               /\ s = 2 =>
                      CASE frame.undefine = "all" ->
                               /\ cmd = undefine_all_line
                               /\ \A j \in 1..n : step_of(sent_by_call[j]) < 2
                        [] frame.undefine = "coord" -> cmd # undefine_all_line
                        [] OTHER -> FALSE]_vars

\* a call has sent an abort, a clear, an unbind and a bind
C29_Witness ==
    /\ frame.fn = "set_coords"
    /\ \A s \in 1..4 : \E j \in 1..Len(sent_by_call) : step_of(sent_by_call[j]) = s


\* set_coords has ended with 'Failed to set coord'
bind_failed ==
    /\ frame.fn = "set_coords"
    /\ frame.phase = "end"
    /\ pc = "done"
    /\ result.kind = "raise"
    /\ result.val.type = "failed"

\* the bind commands of the desired map among the first n commands of the call
binds_sent(n) ==
    LET its == items(frame.coords)
    IN {i \in 1..Len(its) : \E j \in 1..n :
           sent_by_call[j] = assign_line(its[i].coord, its[i].motor, its[i].axis)}

C26_ZeroAndNoneTimeouts ==
    [][(op.name = "read_timeout" /\ pc = "reading" /\ pc' = "done") =>
          /\ timeout # TimeoutNone
          /\ timeout = 0 => (wire = <<>> /\ result' = Return(PyNone))]_vars

\* a read with timeout 0 has ended after yielding a line
C26_Witness ==
    /\ op.name = "read_timeout"
    /\ timeout = 0
    /\ pc = "done"
    /\ yielded # <<>>


(***************************************************************************)
(* GpasciiChannel.get_variables: one get_variable per requested variable,  *)
(* each in its own try block.  The remote interpreter of this              *)
(* specification has the two variables of the method's documentation.      *)
(***************************************************************************)
i100 == <<"i", "1", "0", "0">>

i200 == <<"i", "2", "0", "0">>

\* a name the interpreter does not know
p9 == <<"p", "9">>

DeviceVars == {[name |-> i100, value |-> <<"0">>], [name |-> i200, value |-> <<"1">>]}

value_of(var) == (CHOOSE d \in DeviceVars : d.name = lower(var)).value

known(var) == \E d \in DeviceVars : d.name = lower(var)

\* the interpreter answers the name of a variable with '<name>=<value>', and
\* any other line with an error line or with nothing
VarsDeviceExec ==
    /\ devpos < Len(sent)
    /\ LET cmd == command(sent[devpos + 1])
       IN \E reply \in IF known(cmd)
                       THEN {<<lower(cmd) \o <<"=">> \o value_of(cmd)>>}
                       ELSE {<<>>, <<ErrorLine>>} :
             /\ pending' = pending \o stream(reply)
             /\ produced' = produced \o reply
    /\ devpos' = devpos + 1
    /\ UNCHANGED <<wire, sent, dev, pc, op, timeout, elapsed, buf, yielded, ret, result>>
    /\ UNCHANGED threadVars
    /\ UNCHANGED extVars

VarLists == {<<>>, <<i100>>, <<i100, i200>>, <<p9, i100>>, <<i200, p9>>}

Callbacks == {"none", "add_one"}

\* a handler for GPError alone
caught_GPError_only(res) == res.exc = "GPError"

\* except (GPError, TimeoutError) as ex
caught(res) == res.exc \in {"GPError", "TimeoutError"}

\* str(ex): GPError(line), TimeoutError('Elapsed %.2f s' % ...)
str_ex(res) == IF res.exc = "GPError" THEN res.val.s ELSE <<"E", "l", "a", "p", "s", "e", "d">>

\* the value of error_cb(var, ex)
PyErrorCb(var, exc) == [type |-> "error_cb", s |-> var, n |-> 0, exc |-> exc]

\* the entry of ret for a read that raised: 'Error: %s' % (ex, ), or
\* error_cb(var, ex)
error_entry(error_cb, var, res) ==
    IF error_cb THEN PyErrorCb(var, res.exc) ELSE PyStr(<<"E", "r", "r", "o", "r", ":", " ">> \o str_ex(res))

\* value = cb(var, value) inside try/except: pass.  The callback of the
\* documentation, lambda var, value: value + 1, raises TypeError for a str
apply_cb(cb, var, value) ==
    IF cb = "add_one" /\ value.type = "int" THEN PyInt(value.n + 1) ELSE value

\* get_variables(variables, type_=..., cb=..., error_cb=...): ret = []
CallGetVariables ==
    /\ pc = "idle"
    /\ \E variables \in VarLists, type_ \in Types, cb \in Callbacks,
          error_cb \in BOOLEAN :
          frame' = [fn |-> "get_variables", phase |-> "loop",
                    variables |-> variables, type_ |-> type_, cb |-> cb,
                    error_cb |-> error_cb, ret |-> <<>>]
    /\ pc' = "ready"
    /\ UNCHANGED <<pending, wire, sent, dev, devpos, produced, csys>>
    /\ UNCHANGED <<op, timeout, elapsed, buf, yielded, ret, result>>
    /\ UNCHANGED threadVars

\* value = self.get_variable(var): neither type_ nor timeout is passed on,
\* so the read converts with str and waits get_variable's default timeout
GV_GetVariable ==
    /\ pc = "ready"
    /\ frame.fn = "get_variables"
    /\ Len(frame.ret) < Len(frame.variables)
    /\ LET var == frame.variables[Len(frame.ret) + 1]
       IN /\ op' = [NoCall EXCEPT !.name = "get_variable", !.var = var,
                                  !.type_ = "str"]
          /\ sent' = Append(sent, payload(lower(var)))
    /\ StartReading(DefaultTimeout)
    /\ UNCHANGED <<pending, wire, dev, devpos, produced, csys, frame>>
    /\ UNCHANGED threadVars

\* the except and else blocks of the loop body: ret.append(...); an
\* exception of another class leaves get_variables
GV_Append ==
    /\ pc = "done"
    /\ frame.fn = "get_variables"
    /\ frame.phase = "loop"
    /\ LET var == frame.variables[Len(frame.ret) + 1]
       IN IF result.kind = "raise" /\ ~caught(result)
          THEN /\ frame' = [frame EXCEPT !.phase = "end"]
               /\ UNCHANGED <<pc, result>>
          ELSE /\ frame' = [frame EXCEPT !.ret =
                      Append(@, IF result.kind = "raise"
                                THEN error_entry(frame.error_cb, var, result)
                                ELSE apply_cb(frame.cb, var, result.val))]
               /\ pc' = "ready"
               /\ result' = Running
    /\ UNCHANGED <<pending, wire, sent, dev, devpos, produced, csys>>
    /\ UNCHANGED <<op, timeout, elapsed, buf, yielded, ret>>
    /\ UNCHANGED threadVars

\* return ret
GV_Return ==
    /\ pc = "ready"
    /\ frame.fn = "get_variables"
    /\ Len(frame.ret) = Len(frame.variables)
    /\ result' = Return(PyList(frame.ret))
    /\ pc' = "done"
    /\ frame' = [frame EXCEPT !.phase = "end"]
    /\ UNCHANGED <<pending, wire, sent, dev, devpos, produced, csys>>
    /\ UNCHANGED <<op, timeout, elapsed, buf, yielded, ret>>
    /\ UNCHANGED threadVars

InitVars ==
    /\ InitIdle
    /\ produced = <<>>
    /\ pending = <<>>

NextVars ==
    \/ CallGetVariables
    \/ GV_GetVariable
    \/ GV_Append
    \/ GV_Return
    \/ VarsDeviceExec
    \/ EmitLine
    \/ Recv
    \/ Tick
    \/ Exhaust

SpecVars == InitVars /\ [][NextVars]_vars

get_variables_ended ==
    /\ frame.fn = "get_variables"
    /\ frame.phase = "end"

is_error_entry(e) ==
    \/ e.type = "error_cb"
    \/ e.type = "str" /\ startswith(e.s, <<"E", "r", "r", "o", "r", ":", " ">>)

\* C23: get_variables ends by returning a list with one entry per requested
\* variable, in the order of the request: the entry of a variable whose
\* read raised the interpreter error or the timeout is error_cb(var, ex),
\* or an 'Error: ...' text without error_cb, and the entry of any other
\* variable is what its read returned; the reads after a failed one are
\* made, and neither exception leaves get_variables.
C23_OneEntryPerVariable ==
    get_variables_ended =>
        /\ result.kind = "return"
        /\ result.val = PyList(frame.ret)
        /\ Len(frame.ret) = Len(frame.variables)
        /\ [i \in 1..Len(sent) |-> command(sent[i])]
              = [i \in 1..Len(frame.variables) |-> lower(frame.variables[i])]
        /\ \A i \in 1..Len(frame.ret) :
              LET e == frame.ret[i]
                  var == frame.variables[i]
              IN \/ known(var) /\ e = PyStr(value_of(var))
                 \/ /\ frame.error_cb
                    /\ \E exc \in {"GPError", "TimeoutError"} : e = PyErrorCb(var, exc)
                 \/ /\ ~frame.error_cb
                    /\ e.type = "str"
                    /\ startswith(e.s, <<"E", "r", "r", "o", "r", ":", " ">>)

\* a read that failed is followed by a read that returned a value
C23_Witness ==
    /\ get_variables_ended
    /\ Len(frame.ret) = 2
    /\ is_error_entry(frame.ret[1])
    /\ ~is_error_entry(frame.ret[2])

\* C24: the entries that get_variables(variables, type_=T) returns for the
\* variables that were read are the values get_variable(var, type_=T)
\* returns for them.
C24_ConvertedWithType ==
    get_variables_ended =>
        \A i \in 1..Len(frame.ret) :
            (~is_error_entry(frame.ret[i]) /\ frame.cb = "none")
                => Return(frame.ret[i])
                      = typecast(frame.type_, value_of(frame.variables[i]))


(***************************************************************************)
(* GpasciiChannel.__init__: ShellChannel.__init__ sets the terminal up,    *)
(* waits for the shell prompt and sends the command that starts the        *)
(* interpreter; GpasciiChannel then waits for the interpreter's banner.    *)
(***************************************************************************)
\* comm._user
user == <<"r", "o", "o", "t">>

stty_line == <<"s", "t", "t", "y", " ", "-", "e", "c", "h", "o">>

\* r'export PS1="\u@\h:\w\$ "'
ps1_line ==
    <<"e", "x", "p", "o", "r", "t", " ", "P", "S", "1", "=", "\"", "\\", "u",
      "@", "\\", "h", ":", "\\", "w", "\\", "$", " ", "\"">>

CMD_GPASCII == <<"g", "p", "a", "s", "c", "i", "i", " ", "-", "2", " ", "2", ">", "&", "1">>

\* '%s@.*' % comm._user
PromptPattern == [Pattern(FALSE, user \o <<"@">>) EXCEPT !.tail = TRUE]

Banner == <<"S", "T", "D", "I", "N", " ", "O", "p", "e", "n", " ", "f", "o", "r", " ", "A", "S", "C", "I", "I", " ", "I", "n", "p", "u", "t">>

\* the same wait without the closing '$'
BannerPattern_unanchored == [Pattern(TRUE, Banner) EXCEPT !.group = TRUE]

\* '.*(STDIN Open for ASCII Input)$'
BannerPattern == [Pattern(TRUE, Banner) EXCEPT !.group = TRUE, !.eol = TRUE]

\* what the shell may print after the prompt has been set
PromptReplies == {<<>>, <<user \o <<"@", "h", ":", "~", "$", " ">>>>, <<<<"x">>, user \o <<"@", "h", "$">>>>}

\* what may be printed after the command that starts the interpreter
BannerReplies ==
    {<<>>, <<Banner>>, <<<<"x">>, <<">", " ">> \o Banner>>, <<Banner \o <<" ", "f", "a", "i", "l", "e", "d">>>>,
     <<<<"b", "a", "s", "h", ":", " ", "g", "p", "a", "s", "c", "i", "i", ":", " ", "c", "o", "m", "m", "a", "n", "d", " ", "n", "o", "t", " ", "f", "o", "u", "n", "d">>>>}

\* the remote shell executes the next line sent
ShellExec ==
    /\ devpos < Len(sent)
    /\ LET cmd == command(sent[devpos + 1])
       IN \E reply \in IF cmd = ps1_line THEN PromptReplies
                       ELSE IF cmd = CMD_GPASCII THEN BannerReplies
                       ELSE {<<>>} :
             /\ pending' = pending \o stream(reply)
             /\ produced' = produced \o reply
    /\ devpos' = devpos + 1
    /\ UNCHANGED <<wire, sent, dev, pc, op, timeout, elapsed, buf, yielded, ret, result>>
    /\ UNCHANGED threadVars
    /\ UNCHANGED extVars

\* not value, for the value of wait_for: False, or a tuple of two items
falsy(v) == v.type = "bool"

\* GpasciiChannel(comm): ShellChannel.__init__ up to its wait for the prompt
CallGpasciiChannel ==
    /\ pc = "idle"
    /\ sent' = sent \o <<payload(stty_line), payload(ps1_line)>>
    /\ StartReading(ReadTimeout)
    /\ op' = [NoCall EXCEPT !.name = "wait_for", !.pattern = PromptPattern]
    /\ frame' = [fn |-> "__init__", phase |-> "prompt"]
    /\ UNCHANGED <<pending, wire, dev, devpos, produced, csys>>
    /\ UNCHANGED threadVars

\* the wait for the prompt has ended: its exception leaves the constructor,
\* its value is not looked at; self.send_line(command), and the wait for
\* the banner begins
Gp_Command ==
    /\ pc = "done"
    /\ frame.fn = "__init__"
    /\ frame.phase = "prompt"
    /\ IF result.kind = "raise"
       THEN /\ frame' = [frame EXCEPT !.phase = "end"]
            /\ UNCHANGED <<sent, callVars>>
       ELSE /\ sent' = Append(sent, payload(CMD_GPASCII))
            /\ StartReading(ReadTimeout)
            /\ op' = [NoCall EXCEPT !.name = "wait_for", !.pattern = BannerPattern]
            /\ frame' = [frame EXCEPT !.phase = "banner"]
    /\ UNCHANGED <<pending, wire, dev, devpos, produced, csys>>
    /\ UNCHANGED threadVars

\* if not self.wait_for(...): raise ValueError('GPASCII startup string not
\* found'); otherwise the constructor returns
Gp_Banner ==
    /\ pc = "done"
    /\ frame.fn = "__init__"
    /\ frame.phase = "banner"
    /\ result' = IF result.kind = "raise" THEN result
                 ELSE IF falsy(result.val) THEN Raise("ValueError", PyNone)
                 ELSE Return(PyNone)
    /\ frame' = [frame EXCEPT !.phase = "end"]
    /\ UNCHANGED <<pending, wire, sent, dev, devpos, produced, csys>>
    /\ UNCHANGED <<pc, op, timeout, elapsed, buf, yielded, ret>>
    /\ UNCHANGED threadVars

InitOpen ==
    /\ InitIdle
    /\ produced = <<>>
    /\ pending = <<>>

NextOpen ==
    \/ CallGpasciiChannel
    \/ Gp_Command
    \/ Gp_Banner
    \/ ShellExec
    \/ EmitBytes
    \/ Recv
    \/ Tick
    \/ Exhaust

SpecOpen == InitOpen /\ [][NextOpen]_vars

\* a line ending in the banner was read during the wait for the banner
banner_seen ==
    /\ op.pattern = BannerPattern
    /\ \E i \in 1..Len(yielded) : endswith(yielded[i], Banner)

MaxCalls == 3

\* EOT = '\04', one character
EOT == <<"\\04">>

Apis == {"send_line", "sync", "read_timeout", "get_variable", "set_variable"}

OpenChannel ==
    [fn |-> "", phase |-> "", channel |-> TRUE, closed |-> FALSE, calls |-> 0,
     closes |-> 0]

\* a line the interpreter does not understand
junk_line == <<"z", "z">>

\* what the call sends before it reads, when the channel is there
api_lines(api) ==
    IF api = "send_line" THEN <<payload(junk_line)>>
    ELSE IF api = "get_variable" THEN <<payload(lower(DevName))>>
    ELSE IF api = "set_variable"
    THEN <<payload(lower(DevName) \o <<"=">> \o DevLimit), payload(lower(DevName))>>
    ELSE <<>>

\* the timeout of the call's read
api_timeout(api) ==
    IF api = "sync" THEN SyncTimeout
    ELSE IF api = "read_timeout" THEN ReadTimeout
    ELSE DefaultTimeout

\* the loop body that runs on the lines read: sync's is that of send_line
api_op(api) ==
    IF api = "sync" THEN [NoCall EXCEPT !.name = "send_line"]
    ELSE IF api = "read_timeout" THEN [NoCall EXCEPT !.name = "read_timeout"]
    ELSE [NoCall EXCEPT !.name = "get_variable", !.var = DevName]

\* the transport is lost: the remote side or the network closes it
TransportLost ==
    /\ ~frame.closed
    /\ frame' = [frame EXCEPT !.closed = TRUE]
    /\ UNCHANGED <<pending, wire, sent, dev, devpos, produced, csys>>
    /\ UNCHANGED callVars
    /\ UNCHANGED threadVars

\* send_line(line), sync(), iterating read_timeout(), get_variable(var) and
\* set_variable(var, value): 'if channel is None: raise
\* PPCommChannelClosed()' comes first; channel.send on a transport that is
\* closed raises the transport's error; send_line without sync returns once
\* the line is sent
CallOnChannel ==
    /\ pc = "idle"
    /\ frame.calls < MaxCalls
    /\ \E api \in Apis :
          /\ frame' = [frame EXCEPT !.fn = api, !.phase = "", !.calls = @ + 1]
          /\ IF ~frame.channel
             THEN /\ result' = Raise("PPCommChannelClosed", PyNone)
                  /\ pc' = "done"
                  /\ UNCHANGED <<sent, op, timeout, elapsed, buf, yielded, ret>>
             ELSE IF frame.closed /\ api_lines(api) # <<>>
             THEN /\ result' = Raise("socket.error", PyNone)
                  /\ pc' = "done"
                  /\ UNCHANGED <<sent, op, timeout, elapsed, buf, yielded, ret>>
             ELSE IF api = "send_line"
             THEN /\ sent' = sent \o api_lines(api)
                  /\ result' = Return(PyNone)
                  /\ pc' = "done"
                  /\ UNCHANGED <<op, timeout, elapsed, buf, yielded, ret>>
             ELSE /\ sent' = sent \o api_lines(api)
                  /\ StartReading(api_timeout(api))
                  /\ op' = api_op(api)
    /\ UNCHANGED <<pending, wire, dev, devpos, produced, csys>>
    /\ UNCHANGED threadVars

\* close(): 'if channel is not None and not channel.closed: self.sync()',
\* and nothing else
CallClose ==
    /\ pc = "idle"
    /\ frame.calls < MaxCalls
    /\ IF frame.channel /\ ~frame.closed
       THEN /\ frame' = [frame EXCEPT !.fn = "close", !.phase = "sync",
                                      !.calls = @ + 1]
            /\ StartReading(SyncTimeout)
            /\ op' = api_op("sync")
       ELSE /\ frame' = [frame EXCEPT !.fn = "close", !.phase = "end",
                                      !.calls = @ + 1, !.closes = @ + 1]
            /\ result' = Return(PyNone)
            /\ pc' = "done"
            /\ UNCHANGED <<op, timeout, elapsed, buf, yielded, ret>>
    /\ UNCHANGED <<pending, wire, sent, dev, devpos, produced, csys>>
    /\ UNCHANGED threadVars

\* close() after its sync: channel.send(self.EOT); self._channel = None.
\* A GPError of sync leaves close before both
Close_Send ==
    /\ pc = "done"
    /\ frame.fn = "close"
    /\ frame.phase = "sync"
    /\ IF result.kind = "raise"
       THEN /\ frame' = [frame EXCEPT !.phase = "end"]
            /\ UNCHANGED sent
       ELSE /\ frame' = [frame EXCEPT !.phase = "end", !.channel = FALSE,
                                      !.closes = @ + 1]
            /\ sent' = Append(sent, EOT)
    /\ UNCHANGED <<pending, wire, dev, devpos, produced, csys>>
    /\ UNCHANGED callVars
    /\ UNCHANGED threadVars

\* the caller goes on to its next call
NextCall ==
    /\ pc = "done"
    /\ frame.fn = "close" => frame.phase = "end"
    /\ pc' = "idle"
    /\ result' = Running
    /\ UNCHANGED <<pending, wire, sent, dev, devpos, produced, csys, frame>>
    /\ UNCHANGED <<op, timeout, elapsed, buf, yielded, ret>>
    /\ UNCHANGED threadVars

InitClose ==
    /\ InitChannel
    /\ InitCall
    /\ csys = [binds |-> {}, maxcoords |-> 0]
    /\ frame = OpenChannel
    /\ lock = [owner |-> 0, count |-> 0]
    /\ th = <<>>
    /\ produced = <<>>
    /\ pending = <<>>

NextClose ==
    \/ CallOnChannel
    \/ CallClose
    \/ Close_Send
    \/ NextCall
    \/ TransportLost
    \/ DeviceExec
    \/ EmitLine
    \/ Recv
    \/ Tick
    \/ Exhaust

SpecClose == InitClose /\ [][NextClose]_vars

\* C22: once a close() has returned, every call of send_line, sync,
\* read_timeout, get_variable or set_variable ends at once with
\* PPCommChannelClosed and sends nothing.
C22_ClosedAfterClose ==
    [][(frame.closes > 0 /\ pc = "idle" /\ pc' # "idle" /\ frame'.fn \in Apis) =>
          /\ result' = Raise("PPCommChannelClosed", PyNone)
          /\ sent' = sent]_vars


(***************************************************************************)
(* GatherClient._recv_packet on a socket that delivers the server's bytes  *)
(* in arbitrary pieces: sock.recv(n) returns the bytes that have arrived,  *)
(* n at most, and b'' once the peer has closed the connection.             *)
(***************************************************************************)
FragFrames == {Frame(ord_K, <<>>), TypesFrame(<<>>), DataFrame(0, <<>>)}

FragSeqs == UNION {[1..n -> FragFrames] : n \in 0..MaxFrames}

ExpectedCodes == {<<ord_K>>, <<ord_D>>}

NoRecv ==
    [fn |-> "", phase |-> "", expected_code |-> <<>>, expected |-> 0,
     packet |-> <<>>, received |-> 0, eof |-> FALSE]

\* b''.join(packet)
RECURSIVE join_bytes(_)
join_bytes(packet) ==
    IF packet = <<>> THEN <<>> ELSE Head(packet) \o join_bytes(Tail(packet))

\* _recv_packet after recv_fixed: code, packet = packet[:1], packet[1:]
packet_outcome(packet, expected_code) ==
    LET code == Take(packet, 1)
        body == Drop(packet, 1)
    IN IF code = <<ord_E>>
       THEN IF Len(Take(body, 4)) = 4
            THEN Raise("GatherError", PyInt(be32(Take(body, 4))))
            ELSE StructError
       ELSE IF expected_code = code THEN Return(PyBytes(body))
       ELSE Raise("RuntimeError", PyBytes(code))

\* the peer closes the connection after its last byte
PeerCloses ==
    /\ pending = <<>>
    /\ ~frame.eof
    /\ frame' = [frame EXCEPT !.eof = TRUE]
    /\ UNCHANGED <<pending, wire, sent, dev, devpos, produced, csys>>
    /\ UNCHANGED callVars
    /\ UNCHANGED threadVars

\* _recv_packet(expected_code) is called
RP_Call ==
    /\ pc = "idle"
    /\ \E code \in ExpectedCodes :
          frame' = [frame EXCEPT !.fn = "_recv_packet", !.phase = "header",
                                 !.expected_code = code]
    /\ pc' = "header"
    /\ UNCHANGED <<pending, wire, sent, dev, devpos, produced, csys>>
    /\ UNCHANGED <<op, timeout, elapsed, buf, yielded, ret, result>>
    /\ UNCHANGED threadVars

\* packet_len = self.recv(4); packet_len, = struct.unpack('>I', packet_len):
\* one recv of the socket, which returns when bytes have arrived
RP_Header ==
    /\ pc = "header"
    /\ wire # <<>> \/ frame.eof
    /\ LET chunk == Take(wire, 4)
       IN /\ wire' = Drop(wire, 4)
          /\ IF Len(chunk) # 4
             THEN /\ result' = StructError
                  /\ pc' = "done"
                  /\ frame' = [frame EXCEPT !.phase = "end"]
             ELSE /\ result' = result
                  /\ pc' = "body"
                  /\ frame' = [frame EXCEPT !.phase = "body",
                                            !.expected = be32(chunk),
                                            !.packet = <<>>, !.received = 0]
    /\ UNCHANGED <<pending, sent, dev, devpos, produced, csys>>
    /\ UNCHANGED <<op, timeout, elapsed, buf, yielded, ret>>
    /\ UNCHANGED threadVars

\* recv_fixed, one pass of its loop:
\* chunk = self.sock.recv(expected - len(packet)), where packet is the list
\* of the chunks received so far
RP_Recv ==
    /\ pc = "body"
    /\ frame.received < frame.expected
    /\ wire # <<>> \/ frame.eof
    /\ LET chunk == Take(wire, frame.expected - Len(frame.packet))
       IN /\ wire' = Drop(wire, frame.expected - Len(frame.packet))
          /\ IF Len(chunk) = 0
             THEN /\ result' = Raise("RuntimeError", PyNone)
                  /\ pc' = "done"
                  /\ frame' = [frame EXCEPT !.phase = "end"]
             ELSE /\ result' = result
                  /\ pc' = pc
                  /\ frame' = [frame EXCEPT !.received = @ + Len(chunk),
                                            !.packet = Append(@, chunk)]
    /\ UNCHANGED <<pending, sent, dev, devpos, produced, csys>>
    /\ UNCHANGED <<op, timeout, elapsed, buf, yielded, ret>>
    /\ UNCHANGED threadVars

\* recv_fixed returns b''.join(packet), and _recv_packet looks at the code
RP_Return ==
    /\ pc = "body"
    /\ frame.received >= frame.expected
    /\ result' = packet_outcome(join_bytes(frame.packet), frame.expected_code)
    /\ pc' = "done"
    /\ frame' = [frame EXCEPT !.phase = "end"]
    /\ UNCHANGED <<pending, wire, sent, dev, devpos, produced, csys>>
    /\ UNCHANGED <<op, timeout, elapsed, buf, yielded, ret>>
    /\ UNCHANGED threadVars

InitRecv ==
    /\ InitCall
    /\ csys = [binds |-> {}, maxcoords |-> 0]
    /\ frame = NoRecv
    /\ sent = <<>>
    /\ dev = <<"0">>
    /\ devpos = 0
    /\ wire = <<>>
    /\ lock = [owner |-> 0, count |-> 0]
    /\ th = <<>>
    /\ \E fs \in FragSeqs :
          /\ produced = fs
          /\ pending = encode_all(fs)

NextRecv ==
    \/ RP_Call
    \/ RP_Header
    \/ RP_Recv
    \/ RP_Return
    \/ PeerCloses
    \/ EmitBytes

SpecRecv == InitRecv /\ [][NextRecv]_vars

\* C27: a _recv_packet that has ended, on a stream that holds a frame, has
\* the outcome it has when the stream arrives in one piece, and has taken
\* from the stream the first frame and nothing else: the four bytes of the
\* length and as many bytes as they declare.
C27_FragmentationIndependent ==
    (frame.fn = "_recv_packet" /\ pc = "done" /\ produced # <<>>) =>
        /\ result = _recv_packet(encode_all(produced), frame.expected_code).result
        /\ wire \o pending = Drop(encode_all(produced), Len(encode(produced[1])))

\* recv_fixed(n) returns n bytes
S27_RecvFixedExact ==
    (frame.fn = "_recv_packet" /\ pc = "body" /\ frame.received >= frame.expected)
        => Len(join_bytes(frame.packet)) = frame.expected


(***************************************************************************)
(* gather.get_sample_count and gather.get_settings.  Times are exact       *)
(* decimal numbers: a time is a natural number of units of 10^-21 s,       *)
(* written in base 10000 with the least significant digit first, so that   *)
(* the servo period 0.000442673749446657994 s is represented exactly.      *)
(***************************************************************************)
Base == 10000

\* the largest sample count the division looks for
MaxCount == 8192

RECURSIVE mul_digits(_, _, _)
mul_digits(a, k, carry) ==
    IF a = <<>>
    THEN IF carry = 0 THEN <<>>
         ELSE <<carry % Base>> \o mul_digits(<<>>, k, carry \div Base)
    ELSE LET v == Head(a) * k + carry
         IN <<v % Base>> \o mul_digits(Tail(a), k, v \div Base)

\* without leading zero digits
RECURSIVE normal(_)
normal(a) ==
    IF a # <<>> /\ a[Len(a)] = 0 THEN normal(SubSeq(a, 1, Len(a) - 1)) ELSE a

\* a * k
times(a, k) == normal(mul_digits(a, k, 0))

RECURSIVE leq_from(_, _, _)
leq_from(a, b, i) ==
    IF i = 0 THEN TRUE
    ELSE IF a[i] # b[i] THEN a[i] < b[i]
    ELSE leq_from(a, b, i - 1)

\* a <= b
leq(a, b) == IF Len(a) # Len(b) THEN Len(a) < Len(b) ELSE leq_from(a, b, Len(a))

\* the largest q in lo..hi with q * d <= a
RECURSIVE quotient(_, _, _, _)
quotient(a, d, lo, hi) ==
    IF lo >= hi THEN lo
    ELSE LET mid == (lo + hi + 1) \div 2
         IN IF leq(times(d, mid), a) THEN quotient(a, d, mid, hi)
            ELSE quotient(a, d, lo, mid - 1)

\* a sample count rounded up to the next integer
get_sample_count_rounded_up(servo_period, gather_period, duration) ==
    LET d == times(servo_period, gather_period)
        q == quotient(duration, d, 0, MaxCount)
    IN IF times(d, q) = duration THEN q ELSE q + 1

\* int(duration / (servo_period * gather_period)), for times that are not
\* negative
get_sample_count(servo_period, gather_period, duration) ==
    quotient(duration, times(servo_period, gather_period), 0, MaxCount)

\* int(samples) * (servo_period * gather_period)
get_duration(servo_period, gather_period, samples) ==
    times(times(servo_period, gather_period), samples)

\* 0.000442673749446657994 s, the servo period of a 2.259 kHz servo clock
Servo2259 == <<7994, 4665, 7494, 2673, 44>>

\* 0.001 s
Servo1000 == <<0, 0, 0, 0, 100>>

ServoPeriods == {Servo2259, Servo1000}

GatherPeriods == {1, 2, 3}

\* 2.0 s
Duration2 == <<0, 0, 0, 0, 0, 20>>

\* 0 s, 0.0025 s, 0.0029 s, 0.003 s, 0.1 s, 2.0 s
Durations ==
    {<<>>, <<0, 0, 0, 0, 2500>>, <<0, 0, 0, 0, 2900>>, <<0, 0, 0, 0, 3000>>,
     <<0, 0, 0, 0, 0, 1>>, Duration2}

AddressLists == {<<>>, <<<<"S", "y", "s", ".", "S", "e", "r", "v", "o", "C", "o", "u", "n", "t", ".", "a">>>>, <<<<"M", "o", "t", "o", "r", "[", "3", "]", ".", "P", "o", "s", ".", "a">>, <<"M", "o", "t", "o", "r", "[", "3", "]", ".", "V", "e", "l", ".", "a">>>>}

SampleArgs == {PyNone, PyInt(3)}

\* the lines that get_settings yields, in order
get_settings(servo_period, addresses, gather_period, duration, samples) ==
    LET count == IF samples.type # "None" THEN samples.n
                 ELSE get_sample_count(servo_period, gather_period, duration)
    IN <<<<"g", "a", "t", "h", "e", "r", ".", "e", "n", "a", "b", "l", "e", "=", "0">>>>
       \o [i \in 1..Len(addresses) |->
              <<"g", "a", "t", "h", "e", "r", ".", "a", "d", "d", "r", "[">> \o str_of(i - 1) \o <<"]", "=">> \o addresses[i]]
       \o <<<<"g", "a", "t", "h", "e", "r", ".", "i", "t", "e", "m", "s", "=">> \o str_of(Len(addresses)),
            <<"g", "a", "t", "h", "e", "r", ".", "P", "e", "r", "i", "o", "d", "=">> \o str_of(gather_period),
            <<"g", "a", "t", "h", "e", "r", ".", "e", "n", "a", "b", "l", "e", "=", "1">>,
            <<"g", "a", "t", "h", "e", "r", ".", "e", "n", "a", "b", "l", "e", "=", "0">>,
            <<"g", "a", "t", "h", "e", "r", ".", "M", "a", "x", "S", "a", "m", "p", "l", "e", "s", "=">> \o str_of(count)>>

\* get_settings(servo_period, addresses, gather_period=..., duration=...,
\* samples=...) is called: a generator, nothing runs yet
CallGetSettings ==
    /\ pc = "idle"
    /\ \E servo_period \in ServoPeriods, addresses \in AddressLists,
          gather_period \in GatherPeriods, duration \in Durations,
          samples \in SampleArgs :
          frame' = [fn |-> "get_settings", phase |-> "",
                    servo_period |-> servo_period, addresses |-> addresses,
                    gather_period |-> gather_period, duration |-> duration,
                    samples |-> samples]
    /\ yielded' = <<>>
    /\ pc' = "ready"
    /\ UNCHANGED <<pending, wire, sent, dev, devpos, produced, csys>>
    /\ UNCHANGED <<op, timeout, elapsed, buf, ret, result>>
    /\ UNCHANGED threadVars

\* the caller takes the next line from the generator, or reaches its end
GS_Next ==
    /\ pc = "ready"
    /\ frame.fn = "get_settings"
    /\ LET lines == get_settings(frame.servo_period, frame.addresses,
                                 frame.gather_period, frame.duration,
                                 frame.samples)
       IN IF Len(yielded) < Len(lines)
          THEN /\ yielded' = Append(yielded, lines[Len(yielded) + 1])
               /\ UNCHANGED <<pc, result, frame>>
          ELSE /\ pc' = "done"
               /\ result' = Return(PyNone)
               /\ frame' = [frame EXCEPT !.phase = "end"]
               /\ UNCHANGED yielded
    /\ UNCHANGED <<pending, wire, sent, dev, devpos, produced, csys>>
    /\ UNCHANGED <<op, timeout, elapsed, buf, ret>>
    /\ UNCHANGED threadVars

InitSettings ==
    /\ InitIdle
    /\ produced = <<>>
    /\ pending = <<>>

NextSettings == CallGetSettings \/ GS_Next

SpecSettings == InitSettings /\ [][NextSettings]_vars

\* the number written in the line 'gather.MaxSamples=...'
max_samples_written == int_of(split1(yielded[Len(yielded)], <<"=">>)[2], 10)

settings_from_duration ==
    /\ frame.fn = "get_settings"
    /\ pc = "done"
    /\ frame.samples = PyNone

MaxCode == 65535

TypeCodes == 0..MaxCode

\* struct.unpack('>I', b) as a word
bits_of(b) == [i \in 0..31 |-> (b[4 - (i \div 8)] \div (2 ^ (i % 8))) % 2]

\* value >> start
shift_right(v, start) == [i \in 0..31 |-> IF i + start <= 31 THEN v[i + start] ELSE 0]

\* (1 << count) - 1, for count up to 32
mask_of(count) == [i \in 0..31 |-> IF i < count THEN 1 ELSE 0]

\* x & y
bit_and(x, y) == [i \in 0..31 |-> x[i] * y[i]]

\* make_conv_bits(start, count) applied to one value
conv_bits(start, count, v) == bit_and(shift_right(v, start), mask_of(count))

PyWord(v) == [type |-> "int", bits |-> v]

Words == {<<0, 0, 0, 0>>, <<255, 255, 255, 255>>, <<128, 0, 0, 1>>, <<18, 52, 86, 120>>}

\* the type of a code is looked up and its conversion applied to a word read
\* with its format
Call_get_type ==
    /\ pc = "idle"
    /\ \E b \in Words :
          LET t == _get_type(op.code)
          IN /\ op' = [op EXCEPT !.name = "_get_type", !.word = b]
             /\ result' = IF t.conv = "conv_bits"
                          THEN Return(PyWord(conv_bits(t.start, t.count, bits_of(b))))
                          ELSE Return(PyNone)
    /\ pc' = "done"
    /\ UNCHANGED <<pending, wire, sent, dev, devpos, timeout, elapsed, buf, yielded,
                   ret, produced, lock, th, csys, frame>>

InitBits ==
    /\ InitChannel
    /\ InitExt
    /\ pc = "idle"
    /\ \E code \in TypeCodes : op = [name |-> "", code |-> code, word |-> <<>>]
    /\ timeout = 0
    /\ elapsed = 0
    /\ buf = <<>>
    /\ yielded = <<>>
    /\ ret = <<>>
    /\ result = Running
    /\ lock = [owner |-> 0, count |-> 0]
    /\ th = <<>>
    /\ produced = <<>>
    /\ pending = <<>>

NextBits == Call_get_type

SpecBits == InitBits /\ [][NextBits]_vars

\* C31: for every type code outside the eight fixed codes the field is four
\* bytes read as an unsigned word, start = code div 2^11 is in 0..31,
\* count = 32 - ((code mod 2^11) div 2^6) is in 1..32, and the decoded value
\* has bit i equal to bit start + i of the word for i below count (0 where
\* start + i is beyond bit 31) and no bit at or above count.
C31_BitField ==
    (pc = "done" /\ op.name = "_get_type" /\ op.code \notin DOMAIN GATHER_TYPES) =>
        LET t == _get_type(op.code)
            w == bits_of(op.word)
        IN /\ t.size = 4
           /\ t.format = "I"
           /\ t.start = op.code \div 2048
           /\ t.count = 32 - ((op.code % 2048) \div 64)
           /\ t.start \in 0..31
           /\ t.count \in 1..32
           /\ result.kind = "return"
           /\ \A i \in 0..31 :
                  result.val.bits[i] =
                      IF i < t.count /\ t.start + i <= 31 THEN w[t.start + i] ELSE 0

\* the code with start 4 and count 8 has decoded a word to a value that is
\* not 0
C31_Witness ==
    /\ pc = "done"
    /\ op.name = "_get_type"
    /\ op.code = BitsCode
    /\ _get_type(op.code).start = 4
    /\ _get_type(op.code).count = 8
    /\ \E i \in 0..7 : result.val.bits[i] = 1


(***************************************************************************)
(* PPComm.fast_gather, the property that creates the gather client on its  *)
(* first access.  The frame holds the PPComm object's fields _fast_gather  *)
(* and _gather_client; a client is connected or not and has the mode that  *)
(* the server acknowledged.                                                *)
(***************************************************************************)
NoClient == [type |-> "None", connected |-> FALSE, mode |-> ""]

Client(connected, mode) == [type |-> "client", connected |-> connected, mode |-> mode]

servo_request == <<"s", "e", "r", "v", "o">> \o <<"\n">>

\* an access of the property: None when fast gather is off; the client that
\* exists; otherwise a new client, which is dropped, and fast gather turned
\* off, when connect raises, and which selects the servo mode when connect
\* succeeds
CallFastGather ==
    /\ pc = "idle"
    /\ frame.calls < MaxCalls
    /\ \E connects \in BOOLEAN :
          IF ~frame._fast_gather
          THEN /\ frame' = [frame EXCEPT !.calls = @ + 1]
               /\ result' = Return(NoClient)
               /\ pc' = "done"
               /\ sent' = sent
          ELSE IF frame._gather_client # NoClient
          THEN /\ frame' = [frame EXCEPT !.calls = @ + 1]
               /\ result' = Return(frame._gather_client)
               /\ pc' = "done"
               /\ sent' = sent
          ELSE IF ~connects
          THEN /\ frame' = [frame EXCEPT !.calls = @ + 1, !._fast_gather = FALSE,
                                         !._gather_client = NoClient]
               /\ result' = Return(NoClient)
               /\ pc' = "done"
               /\ sent' = sent
          ELSE /\ frame' = [frame EXCEPT !.calls = @ + 1,
                                         !._gather_client = Client(TRUE, "")]
               /\ result' = Running
               /\ pc' = "mode"
               /\ sent' = Append(sent, servo_request)
    /\ UNCHANGED <<pending, wire, dev, devpos, produced, csys>>
    /\ UNCHANGED <<op, timeout, elapsed, buf, yielded, ret>>
    /\ UNCHANGED threadVars

\* client.set_servo_mode() after its send: self._recv_packet(b'K') on the
\* frames the server answers (none when it closes the connection); its
\* exception leaves the property, otherwise the property returns
\* self._gather_client
FG_ServoMode ==
    /\ pc = "mode"
    /\ \E reply \in FrameSeqs :
          LET r == _recv_packet(encode_all(reply), <<ord_K>>)
          IN /\ produced' = produced \o reply
             /\ wire' = r.rest
             /\ IF r.result.kind = "raise"
                THEN /\ result' = r.result
                     /\ frame' = frame
                ELSE /\ result' = Return(Client(TRUE, "servo"))
                     /\ frame' = [frame EXCEPT !._gather_client = Client(TRUE, "servo")]
    /\ pc' = "done"
    /\ UNCHANGED <<pending, sent, dev, devpos, csys>>
    /\ UNCHANGED <<op, timeout, elapsed, buf, yielded, ret>>
    /\ UNCHANGED threadVars

InitFastGather ==
    /\ InitChannel
    /\ InitCall
    /\ csys = [binds |-> {}, maxcoords |-> 0]
    /\ \E fast_gather \in BOOLEAN :
          frame = [fn |-> "fast_gather", phase |-> "", calls |-> 0,
                   _fast_gather |-> fast_gather, _gather_client |-> NoClient]
    /\ lock = [owner |-> 0, count |-> 0]
    /\ th = <<>>
    /\ produced = <<>>
    /\ pending = <<>>

NextFastGather == CallFastGather \/ FG_ServoMode \/ NextCall

SpecFastGather == InitFastGather /\ [][NextFastGather]_vars

\* C32: an access of fast_gather that returns, returns None or a client
\* that is connected and whose servo mode the server has acknowledged.
C32_ClientReady ==
    (frame.fn = "fast_gather" /\ pc = "done" /\ result.kind = "return") =>
        \/ result.val = NoClient
        \/ result.val = Client(TRUE, "servo")


(***************************************************************************)
(* get_rows and get_columns with as_numpy.  get_rows(as_numpy=True) calls  *)
(* get_rows with the same argument; every call is a frame of the Python    *)
(* stack, which has a limit.                                               *)
(***************************************************************************)
\* the interpreter's recursion limit, in frames of get_rows
RecursionLimit == 3

PyMatrix(rows) == [type |-> "ndarray", rows |-> rows]

\* np.asarray(data).reshape(n_items, samples) for n_items columns of samples
\* values each
reshape(data, n_items, samples) ==
    PyMatrix([i \in 1..n_items |-> [r \in 1..samples |-> data[i][r]]])

\* m.T
transpose(m) ==
    PyMatrix([r \in 1..(IF m.rows = <<>> THEN 0 ELSE Len(m.rows[1])) |->
                 [i \in 1..Len(m.rows) |-> m.rows[i][r]]])

\* GatherClient.get_columns(as_numpy=True)
get_columns_numpy(octets) ==
    LET q == _query_all(octets)
    IN IF q.result.kind = "raise" THEN q
       ELSE Received(Return(reshape(q.result.val.data, q.result.val.n_items,
                                    q.result.val.line_count)), q.rest)

\* get_rows(as_numpy=...) is called
CallGetRowsNumpy ==
    /\ pc = "idle"
    /\ \E as_numpy \in BOOLEAN :
          frame' = [fn |-> "get_rows", phase |-> "", depth |-> 1,
                    as_numpy |-> as_numpy]
    /\ op' = GatherCall("get_rows", <<>>, <<>>, <<>>)
    /\ pc' = "call"
    /\ UNCHANGED <<pending, wire, sent, dev, devpos, produced, csys>>
    /\ UNCHANGED <<timeout, elapsed, buf, yielded, ret, result>>
    /\ UNCHANGED threadVars

\* the body of get_rows in the innermost frame: with as_numpy it calls
\* self.get_rows(as_numpy=as_numpy), which is one frame more or
\* RecursionError at the limit; without, it queries the server and returns
\* list(zip(*data))
GR_Body ==
    /\ pc = "call"
    /\ IF frame.as_numpy
       THEN /\ IF frame.depth < RecursionLimit
               THEN /\ frame' = [frame EXCEPT !.depth = @ + 1]
                    /\ UNCHANGED <<pc, result>>
               ELSE /\ frame' = [frame EXCEPT !.phase = "end"]
                    /\ result' = Raise("RecursionError", PyNone)
                    /\ pc' = "done"
            /\ UNCHANGED <<sent, wire>>
       ELSE /\ frame' = [frame EXCEPT !.phase = "end"]
            /\ sent' = Append(sent, <<"a", "l", "l">>)
            /\ wire' = get_rows(wire).rest
            /\ result' = get_rows(wire).result
            /\ pc' = "done"
    /\ UNCHANGED <<pending, dev, devpos, produced, csys>>
    /\ UNCHANGED <<op, timeout, elapsed, buf, yielded, ret>>
    /\ UNCHANGED threadVars

InitRows ==
    /\ InitCall
    /\ csys = [binds |-> {}, maxcoords |-> 0]
    /\ frame = [fn |-> "", phase |-> "", depth |-> 0, as_numpy |-> FALSE]
    /\ sent = <<>>
    /\ dev = <<"0">>
    /\ devpos = 0
    /\ pending = <<>>
    /\ lock = [owner |-> 0, count |-> 0]
    /\ th = <<>>
    /\ \E fs \in FrameSeqs :
          /\ produced = fs
          /\ wire = encode_all(fs)

NextRows == CallGetRowsNumpy \/ GR_Body

SpecRows == InitRows /\ [][NextRows]_vars

\* C33: on a stream for which get_columns(as_numpy=True) returns a matrix,
\* get_rows(as_numpy=True) ends by returning the transpose of that matrix,
\* having sent one 'all' query.
C33_RowsAreTransposedColumns ==
    (frame.fn = "get_rows" /\ frame.as_numpy /\ pc = "done") =>
        LET c == get_columns_numpy(encode_all(produced)).result
        IN c.kind = "return" =>
              /\ result = Return(transpose(c.val))
              /\ sent = <<<<"a", "l", "l">>>>


\* the requests a step adds to the ones sent
newly_sent == {sent'[i] : i \in (Len(sent) + 1)..Len(sent')}

\* C34: run_and_wait leaves its polling loop only when the last three polls
\* of ProgActive, of at least three made, all read 0, so that an active
\* reading after an inactive one keeps it waiting; the error status is
\* requested only after the loop.
C34_ThreeInactivePolls ==
    [][frame.fn = "run_and_wait" =>
          /\ (frame.at = "poll" /\ frame'.at = "after") =>
                /\ frame.polls >= 3
                /\ frame.active = <<FALSE, FALSE, FALSE>>
          /\ (frame'.polls = frame.polls + 1 /\ status(csys, TRUE) # 0) =>
                frame'.at = "poll" /\ frame'.active[3]
          /\ frame.at # "after" => error_status_var \notin newly_sent]_vars

\* the loop was left after a poll that read inactive, one that read active
\* and three that read inactive
C34_Witness ==
    /\ frame.fn = "run_and_wait"
    /\ frame.at = "after"
    /\ frame.polls = 5


(***************************************************************************)
(* The lock across the calls that read.  get_variable, get_coord and       *)
(* wait_for take self.lock and iterate over read_timeout, which takes it   *)
(* again when it starts; sync does the same under send_line.               *)
(***************************************************************************)
\* what the remote side produces while the threads run, delivered line by
\* line
LockScripts == {<<>>, <<<<"A", "b", "=", "7">>, <<"x">>>>, <<<<"x">>>>, <<<<"o", "k">>, <<"x">>>>, <<<<"&", "2", "#", "1", "-", ">", "x">>, <<"o", "k">>>>}

\* get_coord(motor): with self.lock, send_line('&0#%d->' % motor), and the
\* read loop begins, with read_timeout's default timeout
T_GetCoord(t) ==
    /\ th[t].pc = "idle"
    /\ lock.owner = 0
    /\ \E motor \in {1} :
          /\ sent' = Append(sent, payload(query_line(motor)))
          /\ th' = [th EXCEPT ![t] =
                       [Idle EXCEPT !.pc = "reading", !.timeout = DefaultTimeout,
                                    !.op = [NoCall EXCEPT !.name = "get_coord",
                                                          !.motor = motor]]]
    /\ lock' = [owner |-> t, count |-> 2]
    /\ UNCHANGED <<pending, wire, dev, devpos, produced>>
    /\ UNCHANGED callVars
    /\ UNCHANGED extVars

\* wait_for(wait_pattern): with self.lock, the generators are made and the
\* read loop begins
T_WaitFor(t) ==
    /\ th[t].pc = "idle"
    /\ lock.owner = 0
    /\ \E p \in {Pattern(FALSE, <<"o", "k">>)} :
          th' = [th EXCEPT ![t] =
                    [Idle EXCEPT !.pc = "reading", !.timeout = DefaultTimeout,
                                 !.op = [NoCall EXCEPT !.name = "wait_for",
                                                       !.pattern = p]]]
    /\ lock' = [owner |-> t, count |-> 2]
    /\ UNCHANGED <<pending, wire, sent, dev, devpos, produced>>
    /\ UNCHANGED callVars
    /\ UNCHANGED extVars

InitLock ==
    /\ InitChannel
    /\ InitCall
    /\ InitExt
    /\ produced \in LockScripts
    /\ pending = stream(produced)
    /\ lock = Free
    /\ th = [t \in Threads |-> Idle]

NextLock ==
    \/ \E t \in Threads : T_GetVariable(t)
    \/ \E t \in Threads : T_GetCoord(t)
    \/ \E t \in Threads : T_WaitFor(t)
    \/ \E t \in Threads : T_SendLine(t)
    \/ \E t \in Threads : T_Sync(t)
    \/ \E t \in Threads : T_Recv(t)
    \/ \E t \in Threads : T_Tick(t)
    \/ \E t \in Threads : T_Exhaust(t)
    \/ EmitLine

SpecLock == InitLock /\ [][NextLock]_vars

\* C35: a thread whose get_variable, get_coord, wait_for or sync has
\* returned or raised does not hold the lock, and the lock is held by a
\* thread that is inside such a call or by none.
C35_LockReleasedAfterCall ==
    /\ \A t \in Threads : th[t].pc \in {"idle", "sent", "done"} => lock.owner # t
    /\ (\A t \in Threads : th[t].pc \in {"idle", "sent", "done"}) => lock = Free

\* one thread's call returned from inside its loop with input still unread,
\* and another thread has taken the lock after it
C35_Witness ==
    \E t, u \in Threads :
        /\ th[t].pc = "done"
        /\ th[t].result.kind = "return"
        /\ th[t].op.name \in {"get_coord", "wait_for"}
        /\ wire # <<>>
        /\ lock.owner = u
        /\ th[u].pc = "reading"


(***************************************************************************)
(* Calls one after another on the interpreter channel: what one call       *)
(* leaves unread is there for the next.                                    *)
(***************************************************************************)
\* the call has ended and the caller, who has seen how, makes another one
CallAgain ==
    /\ pc = "done"
    /\ Len(sent) < MaxCalls
    /\ pc' = "idle"
    /\ frame' = [fn |-> op.name, phase |-> result.kind]
    /\ UNCHANGED <<pending, wire, sent, dev, devpos, produced, csys>>
    /\ UNCHANGED <<op, timeout, elapsed, buf, yielded, ret, result>>
    /\ UNCHANGED threadVars

InitLate ==
    /\ InitIdle
    /\ produced = <<>>
    /\ pending = <<>>

NextLate ==
    \/ CallGetVariable
    \/ CallSetVariable
    \/ CallAgain
    \/ DeviceExec
    \/ EmitLine
    \/ Recv
    \/ Tick
    \/ Exhaust

SpecLate == InitLate /\ [][NextLate]_vars

\* the value get_variable makes of the first line, of those it was handed,
\* that ends its loop
first_answer(o, lines) ==
    LET ends == {i \in 1..Len(lines) :
                    get_variable_line(lower(o.var), o.type_, lines[i]).kind # "none"}
    IN IF ends = {} THEN Running
       ELSE get_variable_line(lower(o.var), o.type_,
                              lines[CHOOSE i \in ends : \A j \in ends : i <= j])

\* C36: the step in which get_variable sends its request leaves the input
\* that has arrived and the input on its way where they are, and a
\* get_variable that returns a value returns the value of the first line it
\* read that carries its name, whichever request that line answers.
C36_FirstMatchingLineAnswers ==
    [][/\ (op'.name = "get_variable" /\ sent' # sent) =>
              wire' = wire /\ pending' = pending
       /\ (op'.name = "get_variable" /\ pc' = "done" /\ result'.kind = "return"
             /\ result'.val # PyNone) =>
              result' = first_answer(op', yielded')]_vars

\* after a get_variable that raised, a second one of the same name has
\* returned a value while the remote side has executed, and answered, the
\* first request alone
C36_Witness ==
    /\ op.name = "get_variable" /\ pc = "done"
    /\ result.kind = "return" /\ result.val # PyNone
    /\ Len(sent) = 2 /\ sent[1] = sent[2]
    /\ frame = [fn |-> "get_variable", phase |-> "raise"]
    /\ devpos = 1
    /\ Len(produced) = 1


\* the lines and the partial line that a pass of read_timeout's loop has in
\* hand after the low-level read
in_hand == read_chunk(buf, Take(wire, RecvSize))

\* C37: when an operation returns or raises on a line, the lines that follow
\* it in the same low-level read and the partial line after them are in
\* neither the channel nor a buffer afterwards, and the next read starts
\* with an empty buffer: it is handed lines of later low-level reads alone.
C37_BufferScopedToCall ==
    [][/\ (pc = "reading" /\ pc' = "done" /\ wire # <<>>) =>
              /\ buf' = <<>>
              /\ wire' = Drop(wire, RecvSize)
              /\ yielded' = yielded \o SubSeq(in_hand.lines, 1,
                                              Len(yielded') - Len(yielded))
       /\ (pc = "idle" /\ pc' = "reading") => buf' = <<>> /\ yielded' = <<>>
       /\ (pc = "reading" /\ pc' = "reading" /\ Len(wire') < Len(wire)) =>
              yielded' = yielded \o in_hand.lines]_vars

\* after a get_variable that raised, the next one has returned on the first
\* of two echoes that came in one low-level read, and the second echo is
\* gone
C37_Witness ==
    /\ op.name = "get_variable" /\ pc = "done"
    /\ result.kind = "return" /\ result.val # PyNone
    /\ frame = [fn |-> "get_variable", phase |-> "raise"]
    /\ Len(sent) = 2
    /\ Len(produced) = 2
    /\ \A i \in 1..2 : get_variable_line(lower(op.var), op.type_, produced[i]).kind = "return"
    /\ pending = <<>> /\ wire = <<>> /\ buf = <<>>
    /\ Len(yielded) = 1


(***************************************************************************)
(* PPComm.shell_output: a generator over the lines of a command's output,  *)
(* through _wait_for when wait_match is given.  Its consumer iterates it   *)
(* to the end.                                                             *)
(***************************************************************************)
\* line.rstrip('\n')
RECURSIVE rstrip_newline(_)
rstrip_newline(s) ==
    IF s # <<>> /\ s[Len(s)] = "\n" THEN rstrip_newline(SubSeq(s, 1, Len(s) - 1))
    ELSE s

\* stdout.readlines(): every line with its newline
readlines(lines) == [i \in 1..Len(lines) |-> lines[i] \o <<"\n">>]

\* shell_output(command, wait_match=...)
CallShellOutput ==
    /\ pc = "idle"
    /\ \E script \in Scripts(WaitLines), wait_match \in BOOLEAN :
          frame' = [fn |-> "shell_output", phase |-> "", wait_match |-> wait_match,
                    stdout |-> readlines(script), k |-> 0]
    /\ \E p \in WaitPatterns, rm \in NoiseLists :
          op' = [NoCall EXCEPT !.name = "shell_output", !.pattern = p,
                               !.remove_matching = rm]
    /\ ret' = <<>>
    /\ pc' = "iterating"
    /\ UNCHANGED <<pending, wire, sent, dev, devpos, produced, csys>>
    /\ UNCHANGED <<timeout, elapsed, buf, yielded, result>>
    /\ UNCHANGED threadVars

\* the consumer takes what the generator yields for the next line of the
\* output; the generator ends after the last line, or at _wait_for's break
SO_Line ==
    /\ pc = "iterating"
    /\ frame.k < Len(frame.stdout)
    /\ LET line == frame.stdout[frame.k + 1]
           w == _wait_for(line, op.pattern, op.remove_matching)
       IN IF frame.wait_match
          THEN /\ ret' = ret \o w.yields
               /\ IF w.break
                  THEN pc' = "done" /\ result' = Return(PyNone)
                  ELSE UNCHANGED <<pc, result>>
          ELSE /\ ret' = Append(ret, [line |-> rstrip_newline(line),
                                      groups |-> NoGroups])
               /\ UNCHANGED <<pc, result>>
    /\ frame' = [frame EXCEPT !.k = @ + 1]
    /\ UNCHANGED <<pending, wire, sent, dev, devpos, produced, csys>>
    /\ UNCHANGED <<op, timeout, elapsed, buf, yielded>>
    /\ UNCHANGED threadVars

SO_End ==
    /\ pc = "iterating"
    /\ frame.k = Len(frame.stdout)
    /\ pc' = "done"
    /\ result' = Return(PyNone)
    /\ UNCHANGED <<pending, wire, sent, dev, devpos, produced, csys, frame>>
    /\ UNCHANGED <<op, timeout, elapsed, buf, yielded, ret>>
    /\ UNCHANGED threadVars

InitShell ==
    /\ InitIdle
    /\ produced = <<>>
    /\ pending = <<>>

NextShell == CallShellOutput \/ SO_Line \/ SO_End

SpecShell == InitShell /\ [][NextShell]_vars

\* C38: the consumer of shell_output with wait_match is handed every line
\* of the output at most once, and a line that matches the target only as a
\* match, never as an ordinary line.
C38_EachLineOnce ==
    (op.name = "shell_output" /\ frame.wait_match) =>
        /\ Len(ret) <= frame.k
        /\ \A i \in 1..Len(ret) :
              ret[i].groups.none => ~re_match(op.pattern, ret[i].line)


(***************************************************************************)
(* GpasciiChannel.set_servo_control and get_servo_control, against a       *)
(* remote side that holds the motor's ServoCtrl.                           *)
(***************************************************************************)
PyBool(b) == [type |-> "bool", s |-> <<>>, n |-> IF b THEN 1 ELSE 0]

\* 'Motor[%d].ServoCtrl' % motor
servo_ctrl_var(motor) == <<"M", "o", "t", "o", "r", "[">> \o str_of(motor) \o <<"]", ".", "S", "e", "r", "v", "o", "C", "t", "r", "l">>

ServoMotors == {3}

\* the remote side executes the next command: a write of ServoCtrl is
\* accepted or left without effect, a read of it is answered by its echo
ServoDeviceExec ==
    /\ devpos < Len(sent)
    /\ LET cmd == command(sent[devpos + 1])
       IN IF str_in(<<"=">>, cmd)
          THEN /\ dev' \in {split1(cmd, <<"=">>)[2], dev}
               /\ UNCHANGED <<pending, produced>>
          ELSE \E reply \in {<<cmd \o <<"=">> \o dev>>, <<ErrorLine>>} :
                  /\ pending' = pending \o stream(reply)
                  /\ produced' = produced \o reply
                  /\ dev' = dev
    /\ devpos' = devpos + 1
    /\ UNCHANGED <<wire, sent, pc, op, timeout, elapsed, buf, yielded, ret, result>>
    /\ UNCHANGED threadVars
    /\ UNCHANGED extVars

\* set_servo_control(motor, enabled): enabled becomes 1 or 0, then
\* self.set_variable('Motor[%d].ServoCtrl' % motor, 1), whose check reads
\* the variable back
CallSetServoControl ==
    /\ pc = "idle"
    /\ \E motor \in ServoMotors, enabled \in BOOLEAN :
          LET var == lower(servo_ctrl_var(motor))
          IN /\ frame' = [fn |-> "set_servo_control", phase |-> "set",
                          motor |-> motor, enabled |-> enabled]
             /\ sent' = sent \o <<payload(var \o <<"=">> \o str_of(1)), payload(var)>>
             /\ op' = [NoCall EXCEPT !.name = "get_variable", !.var = var]
    /\ StartReading(DefaultTimeout)
    /\ UNCHANGED <<pending, wire, dev, devpos, produced, csys>>
    /\ UNCHANGED threadVars

\* return self.get_servo_control(motor), its get_variable(var, type_=int);
\* an exception of set_variable leaves set_servo_control
SC_GetServoControl ==
    /\ pc = "done"
    /\ frame.fn = "set_servo_control" /\ frame.phase = "set"
    /\ IF result.kind = "raise"
       THEN /\ frame' = [frame EXCEPT !.phase = "end"]
            /\ UNCHANGED <<sent, callVars>>
       ELSE /\ frame' = [frame EXCEPT !.phase = "get"]
            /\ sent' = Append(sent, payload(lower(servo_ctrl_var(frame.motor))))
            /\ op' = [NoCall EXCEPT !.name = "get_variable",
                                    !.var = lower(servo_ctrl_var(frame.motor)),
                                    !.type_ = "int"]
            /\ StartReading(DefaultTimeout)
    /\ UNCHANGED <<pending, wire, dev, devpos, produced, csys>>
    /\ UNCHANGED threadVars

\* (1 == self.get_variable(...)) is returned
SC_Return ==
    /\ pc = "done"
    /\ frame.fn = "set_servo_control" /\ frame.phase = "get"
    /\ frame' = [frame EXCEPT !.phase = "end"]
    /\ result' = IF result.kind = "raise" THEN result
                 ELSE Return(PyBool(result.val = PyInt(1)))
    /\ UNCHANGED <<pending, wire, sent, dev, devpos, produced, csys>>
    /\ UNCHANGED <<pc, op, timeout, elapsed, buf, yielded, ret>>
    /\ UNCHANGED threadVars

InitServo ==
    /\ InitIdle
    /\ produced = <<>>
    /\ pending = <<>>

NextServo ==
    \/ CallSetServoControl
    \/ SC_GetServoControl
    \/ SC_Return
    \/ ServoDeviceExec
    \/ EmitLine
    \/ Recv
    \/ Tick
    \/ Exhaust

SpecServo == InitServo /\ [][NextServo]_vars

\* C39: the first command of set_servo_control(motor, enabled) writes 1 to
\* Motor[motor].ServoCtrl when enabled is true and 0 when it is not, and
\* the call returns whether the value read back last is 1.
C39_WritesRequestedValue ==
    frame.fn = "set_servo_control" =>
        /\ sent[1] = payload(lower(servo_ctrl_var(frame.motor)) \o <<"=">>
                             \o (IF frame.enabled THEN <<"1">> ELSE <<"0">>))
        /\ (frame.phase = "end" /\ result.kind = "return") =>
              result.val = PyBool(yielded[Len(yielded)]
                                     = lower(servo_ctrl_var(frame.motor)) \o <<"=", "1">>)


(***************************************************************************)
(* gather with its setup, against the remote gather: the buffer holds      *)
(* gather.maxlines samples, the remote side takes samples while            *)
(* gather.enable is 2 until gather.samples is gather.maxsamples or the     *)
(* buffer is full.  sent holds the writes of variables; the reads are      *)
(* answered from the remote side's state.                                  *)
(***************************************************************************)
min(a, b) == IF a < b THEN a ELSE b

RemoteGather(maxlines, maxsamples, samples, enable) ==
    [maxlines |-> maxlines, maxsamples |-> maxsamples, samples |-> samples,
     enable |-> enable]

\* 'gather.maxsamples=%s' % total_samples, lower-cased by set_variable
gather_maxsamples(n) == <<"g", "a", "t", "h", "e", "r", ".", "m", "a", "x", "s", "a", "m", "p", "l", "e", "s", "=">> \o str_of(n)

\* a setup_gather that leaves the sample count as it was computed
GW_Setup_unclamped ==
    /\ pc = "running"
    /\ frame.fn = "gather" /\ frame.at = "setup"
    /\ \/ /\ frame' = [frame EXCEPT !.at = "enable"]
          /\ csys' = [csys EXCEPT !.maxsamples = frame.requested]
          /\ UNCHANGED <<pc, result>>
       \/ /\ frame' = [frame EXCEPT !.at = "end"]
          /\ csys' = [csys EXCEPT !.maxsamples = frame.requested]
          /\ pc' = "done"
          /\ result' = Raise("TimeoutError", PyNone)
    /\ UNCHANGED <<pending, wire, sent, dev, devpos, produced>>
    /\ UNCHANGED <<op, timeout, elapsed, buf, yielded, ret>>
    /\ UNCHANGED threadVars

\* gather(gpascii, addresses, duration, period) is called; requested is
\* get_sample_count(servo_period, period, duration)
CallGatherFor ==
    /\ pc = "idle"
    /\ \E requested \in 0..MaxSamples :
          frame' = [fn |-> "gather", at |-> "setup", requested |-> requested,
                    total_samples |-> requested, samples |-> 0,
                    interrupted |-> FALSE]
    /\ pc' = "running"
    /\ UNCHANGED <<pending, wire, sent, dev, devpos, produced, csys>>
    /\ UNCHANGED <<op, timeout, elapsed, buf, yielded, ret, result>>
    /\ UNCHANGED threadVars

\* setup_gather: the settings, with gather.MaxSamples, are written and
\* loaded; gather.maxlines is read and, when it is less than the count, the
\* count becomes gather.maxlines and gather.maxsamples is written again.
\* The read of gather.maxlines may fail.
GW_Setup ==
    /\ pc = "running"
    /\ frame.fn = "gather" /\ frame.at = "setup"
    /\ \/ /\ IF csys.maxlines < frame.total_samples
             THEN /\ frame' = [frame EXCEPT !.at = "enable",
                                            !.total_samples = csys.maxlines]
                  /\ sent' = Append(sent, gather_maxsamples(csys.maxlines))
                  /\ csys' = [csys EXCEPT !.maxsamples = csys.maxlines]
             ELSE /\ frame' = [frame EXCEPT !.at = "enable"]
                  /\ csys' = [csys EXCEPT !.maxsamples = frame.requested]
                  /\ UNCHANGED sent
          /\ UNCHANGED <<pc, result>>
       \/ /\ frame' = [frame EXCEPT !.at = "end"]
          /\ csys' = [csys EXCEPT !.maxsamples = frame.requested]
          /\ pc' = "done"
          /\ result' = Raise("TimeoutError", PyNone)
          /\ UNCHANGED sent
    /\ UNCHANGED <<pending, wire, dev, devpos, produced>>
    /\ UNCHANGED <<op, timeout, elapsed, buf, yielded, ret>>
    /\ UNCHANGED threadVars

\* gpascii.set_variable('gather.enable', 2); samples = 0
GW_Enable ==
    /\ pc = "running"
    /\ frame.fn = "gather" /\ frame.at = "enable"
    /\ sent' = Append(sent, gather_enable_2)
    /\ csys' = [csys EXCEPT !.enable = 2, !.samples = 0]
    /\ frame' = [frame EXCEPT !.at = "poll", !.samples = 0]
    /\ UNCHANGED <<pending, wire, dev, devpos, produced>>
    /\ UNCHANGED callVars
    /\ UNCHANGED threadVars

\* while samples < total_samples: samples = get_variable('gather.samples');
\* a read that fails leaves gather with its exception
GW_Poll ==
    /\ pc = "running"
    /\ frame.fn = "gather" /\ frame.at = "poll"
    /\ IF frame.samples < frame.total_samples
       THEN \/ /\ frame' = [frame EXCEPT !.samples = csys.samples]
               /\ UNCHANGED <<pc, result>>
            \/ /\ frame' = [frame EXCEPT !.at = "end"]
               /\ pc' = "done"
               /\ result' = Raise("TimeoutError", PyNone)
       ELSE /\ frame' = [frame EXCEPT !.at = "after"]
            /\ UNCHANGED <<pc, result>>
    /\ UNCHANGED <<pending, wire, sent, dev, devpos, produced, csys>>
    /\ UNCHANGED <<op, timeout, elapsed, buf, yielded, ret>>
    /\ UNCHANGED threadVars

\* except KeyboardInterrupt: pass
GW_Interrupt ==
    /\ pc = "running"
    /\ frame.fn = "gather" /\ frame.at = "poll"
    /\ frame' = [frame EXCEPT !.at = "after", !.interrupted = TRUE]
    /\ UNCHANGED <<pending, wire, sent, dev, devpos, produced, csys>>
    /\ UNCHANGED callVars
    /\ UNCHANGED threadVars

\* gpascii.set_variable('gather.enable', 0), and the results are fetched
GW_After ==
    /\ pc = "running"
    /\ frame.fn = "gather" /\ frame.at = "after"
    /\ sent' = Append(sent, gather_enable_0)
    /\ csys' = [csys EXCEPT !.enable = 0]
    /\ frame' = [frame EXCEPT !.at = "end"]
    /\ pc' = "done"
    /\ result' = Return(PyList(<<>>))
    /\ UNCHANGED <<pending, wire, dev, devpos, produced>>
    /\ UNCHANGED <<op, timeout, elapsed, buf, yielded, ret>>
    /\ UNCHANGED threadVars

\* the remote gather takes a sample
RemoteGatherSample ==
    /\ csys.enable = 2
    /\ csys.samples < min(csys.maxsamples, csys.maxlines)
    /\ csys' = [csys EXCEPT !.samples = @ + 1]
    /\ UNCHANGED <<pending, wire, sent, dev, devpos, produced, frame>>
    /\ UNCHANGED callVars
    /\ UNCHANGED threadVars

InitGatherWait ==
    /\ InitChannel
    /\ InitCall
    /\ produced = <<>>
    /\ pending = <<>>
    /\ lock = [owner |-> 0, count |-> 0]
    /\ th = <<>>
    /\ \E maxlines \in 0..MaxSamples, maxsamples \in 0..MaxSamples :
          csys = RemoteGather(maxlines, maxsamples, 0, 0)
    /\ frame = [fn |-> "", at |-> "", requested |-> 0, total_samples |-> 0,
                samples |-> 0, interrupted |-> FALSE]

gather_steps == GW_Setup \/ GW_Enable \/ GW_Poll \/ GW_After

NextGatherWait ==
    \/ CallGatherFor
    \/ GW_Setup
    \/ GW_Enable
    \/ GW_Poll
    \/ GW_Interrupt
    \/ GW_After
    \/ RemoteGatherSample

\* the thread that runs gather keeps running; nothing is required of the
\* remote gather's progress or of interruptions
SpecGatherWait ==
    InitGatherWait /\ [][NextGatherWait]_vars /\ WF_vars(gather_steps)

\* C40: the count gather waits for is at most gather.maxlines, and once
\* gather.samples has reached the lesser of the requested count and
\* gather.maxlines while gather waits, gather ends, with gather.enable=0
\* written unless a read failed.
C40_ClampedWaitTerminates ==
    /\ []((frame.fn = "gather" /\ frame.at \in {"enable", "poll", "after"}) =>
             frame.total_samples <= csys.maxlines)
    /\ (frame.fn = "gather" /\ frame.at = "poll"
           /\ csys.samples >= min(frame.requested, csys.maxlines))
          ~> (frame.at = "end" /\ (gather_disabled \/ result.kind = "raise"))

\* more samples were requested than the buffer holds; gather waited for as
\* many as it holds and wrote gather.enable=0
C40_Witness ==
    /\ frame.fn = "gather" /\ frame.at = "end"
    /\ ~frame.interrupted
    /\ frame.requested > csys.maxlines
    /\ csys.maxlines > 0
    /\ frame.samples = csys.maxlines
    /\ gather_disabled

====
